---- MODULE Spec2Model ----
(***************************************************************************)
(* A model of github.com/mtgnorton/k: the time-bucketed RollingWindow of   *)
(* package kcollection (rollingwindow.go, options.go) over the monotonic   *)
(* clock of package ktime (relative_time.go).                              *)
(*                                                                         *)
(* Time is counted in abstract clock units; the clock never goes back      *)
(* (ktime.Now is time.Since of a value that carries a monotonic reading).  *)
(* Every bucket carries, beside Sum and Count, the history variable        *)
(* `added`: the clock readings at which the values it holds were added.    *)
(***************************************************************************)
EXTENDS Integers, Sequences, FiniteSets, TLC

\* ---------------------------------------------------------------- bounds
MaxSize == 3        \* window sizes 1..MaxSize
MaxInterval == 2    \* bucket intervals 1..MaxInterval clock units
MaxInit == 1        \* the window is constructed at clock 0..MaxInit
MaxTime == 7        \* the clock stops advancing at MaxTime
MaxDelay == 1       \* clock units that may pass between two clock readings of one call
MaxAdds == 3        \* Add calls made on one window
MaxValue == 2       \* values added are 1..MaxValue
NumProducers == 2   \* goroutines calling Add(1) concurrently
AddsPerProducer == 2 \* Add(1) calls of each producer
NumReaders == 1     \* goroutines calling Reduce concurrently
ReducesPerReader == 2 \* Reduce calls of each reader
MaxConcTime == 3    \* the clock stops advancing at MaxConcTime while goroutines run
NumGetters == 1     \* goroutines calling GetLastValidBucket concurrently
LockCalls == 1      \* calls of each goroutine when producers, readers and getters run together
MaxLog == 4         \* Add calls on a single Bucket between two Resets
MaxResets == 2      \* Reset calls on a single Bucket
NegValues == 1      \* values added to a single Bucket are -NegValues..MaxValue
MaxCntTime == 3     \* the clock stops advancing at MaxCntTime for a RollingResultCounter
MaxCntAdds == 2     \* AddSuccess calls, and AddFail calls, on one RollingResultCounter
MaxDo == 3          \* Do calls made on one TimeoutController
MaxMs == 2          \* the wall clock reads 0..MaxMs milliseconds after epoch
MaxTimes == 3       \* WithTimes is called with 0..MaxTimes
MaxDoCalls == 2     \* calls of Do on one retry
MaxItems == 3        \* the slices given to LoopConc and LoopConcAsync have 0..MaxItems elements
MaxConc == 2        \* the concurrency argument is in -NegConc..MaxConc
NegConc == 1
WalkEnd == 30        \* the walkthrough ends when the clock reads 3.0s, in tenths of a second
MaxKey == 4         \* the keys of the maps given to RangeInOrder are in 1..MaxKey
MaxOpts == 2        \* options passed to one NewRollingWindow call
NegSizes == 1       \* WithSize is called with -NegSizes..MaxNewSize
MaxNewSize == 2
MaxNewTime == 3     \* the clock stops advancing at MaxNewTime after NewRollingWindow
MaxNewAdds == 2     \* Add calls made on the window that NewRollingWindow returned

Values == 1..MaxValue

VARIABLES
    opts,       \* RollingWindowOptions: size, interval, ignoreCurrent
    offset,     \* RollingWindow.offset
    lastTime,   \* RollingWindow.lastTime
    buckets,    \* window.buckets, slot 0..size-1 -> Bucket
    clock,      \* the value ktime.Now() returns now
    origin,     \* history: lastTime as set by NewRollingWindow
    adds,       \* history: the number of Add calls made so far
    last,       \* history: the last call that returned, what it computed and returned
    visited,    \* history: the buckets the visitor of the last Reduce was invoked with
    lock,       \* RollingWindow.lock: the goroutine holding it exclusively (0: none), and those sharing it
    pc,         \* goroutine -> the statement it executes next
    loc,        \* goroutine -> its local variables
    calls       \* goroutine -> the number of calls it has completed

concVars == <<lock, pc, loc, calls>>

\* The variables of the RollingWindow and of the goroutines that use it.
winVars == <<opts, offset, lastTime, buckets, clock, origin, adds, last, visited, lock, pc, loc, calls>>

VARIABLES
    stage,      \* NewRollingWindow: "options", "window" (built), "panicked"; "crashed": a method panicked
    nopt        \* NewRollingWindow: the number of options applied

newVars == <<stage, nopt>>

VARIABLES
    bkt,        \* a Bucket on its own: Sum, Count
    blog,       \* history: the values added to bkt since its last Reset
    bop,        \* history: the last operation on bkt: "New", "Add", "Reset"
    bresets     \* history: the number of Resets of bkt

bktVars == <<bkt, blog, bop, bresets>>

VARIABLES
    cnt,        \* RollingResultCounter: successWindow, failWindow (<<>> before it is built)
    chist,      \* history: per window, the values added and the clock reading of each Add
    creport,    \* history: per window, what the last Reduce passed to successFn / failFn
    clast       \* history: the last call on the counter, its clock reading, its parity

cntVars == <<cnt, chist, creport, clast>>

VARIABLES
    wall,       \* the value time.Now().UnixMilli() - epoch returns now
    node,       \* the default UniqueNode: timestamp (less epoch), sequence
    callIDs,    \* TimeoutController.callIDs
    tc          \* Do call -> its callID, its timer, its end function, and history

tcVars == <<wall, node, callIDs, tc>>

VARIABLES
    ropts,      \* kretry.Options of the retry: AttemptTimes, CustomDelay, ErrorHandler, Ctx
    backoff,    \* Backoff.attempt of the retry's Backoff
    rctx,       \* the state of Options.Ctx: "active", or its error once done
    rdo,        \* the running call of retry.Do: its position, locals and return values
    rhist       \* history of the calls of retry.Do

rtVars == <<ropts, backoff, rctx, rdo, rhist>>

VARIABLES
    km          \* the running call of kmap.RangeInOrder: its position, arguments and locals

kmVars == <<km>>

VARIABLES
    lc,         \* the running call of kslice.LoopConc: its position, arguments, locals and goroutines
    la          \* the running call of kslice.LoopConcAsync, its goroutines and its consumer

slVars == <<lc, la>>

\* The variables of kretry, kslice and kmap.
moreVars == <<rtVars, kmVars, slVars>>

\* The variables of the components besides the window and its construction.
compVars == <<bktVars, cntVars, tcVars, moreVars>>

\* The variables outside the RollingWindow.
extVars == <<newVars, compVars>>

vars == <<winVars, extVars>>

Producers == 1..NumProducers

Readers == (NumProducers + 1)..(NumProducers + NumReaders)

Getters == (NumProducers + NumReaders + 1)..(NumProducers + NumReaders + NumGetters)

Procs == Producers \cup Readers \cup Getters

\* ------------------------------------------------------- Go arithmetic
\* Go's / and % on integers truncate toward zero.
GoDiv(a, b) == IF a >= 0 THEN a \div b ELSE -((-a) \div b)

GoMod(a, b) == a - b * GoDiv(a, b)

\* ------------------------------------------------------------- Bucket
EmptyBucket == [Sum |-> 0, Count |-> 0, added |-> {}]

\* Bucket.Add at clock reading t.
BucketAdd(b, v, t) == [Sum |-> b.Sum + v, Count |-> b.Count + 1, added |-> b.added \cup {t}]

\* A Reset that clears Sum only.
BucketResetSum(b) == [Sum |-> 0, Count |-> b.Count, added |-> {}]

\* Bucket.Reset.
BucketReset(b) == [Sum |-> 0, Count |-> 0, added |-> {}]

\* ------------------------------------------------------------- window
Slots == 0..(opts.size - 1)

\* newWindow: size buckets from the factory.
newWindow(size) == [j \in 0..(size - 1) |-> EmptyBucket]

\* The value added to the slot after off.
addNext(bs, off, v, t) == [bs EXCEPT ![(off + 1) % opts.size] = BucketAdd(@, v, t)]

\* window.add on the buckets bs.
add(bs, off, v, t) == [bs EXCEPT ![off % opts.size] = BucketAdd(@, v, t)]

\* A rotation that keeps what the bucket holds.
resetBucketKeep(bs, off) == bs

\* window.resetBucket on the buckets bs.
resetBucket(bs, off) == [bs EXCEPT ![off % opts.size] = BucketReset(@)]

\* reduce walking the ring backwards from start.
reduceBackward(start, count) ==
    [i \in 1..count |-> [slot |-> (start + opts.size * count - (i - 1)) % opts.size,
                         b |-> buckets[(start + opts.size * count - (i - 1)) % opts.size]]]

\* window.reduce: the visitor's arguments, in order (slot is the bucket's identity).
reduce(start, count) ==
    [i \in 1..count |-> [slot |-> (start + i - 1) % opts.size,
                         b |-> buckets[(start + i - 1) % opts.size]]]

\* ------------------------------------------------------ RollingWindow
\* ktime.Since(d) at clock reading now.
Since(now, d) == now - d

\* span without the division by the interval.
spanNoInterval(now) ==
    LET off == Since(now, lastTime)
    IN  IF 0 <= off /\ off < opts.size THEN off ELSE opts.size

\* RollingWindow.span at clock reading now.
span(now) ==
    LET off == GoDiv(Since(now, lastTime), opts.interval)
    IN  IF 0 <= off /\ off < opts.size THEN off ELSE opts.size

\* A reset loop over the slots offset+1 .. offset+sp+1.
RECURSIVE resetLoopOneMore(_, _, _)
resetLoopOneMore(bs, i, sp) ==
    IF i > sp THEN bs
    ELSE resetLoopOneMore(resetBucket(bs, (offset + i + 1) % opts.size), i + 1, sp)

\* The reset loop of updateOffset: slots offset+1 .. offset+sp, circularly.
RECURSIVE resetLoop(_, _, _)
resetLoop(bs, i, sp) ==
    IF i >= sp THEN bs
    ELSE resetLoop(resetBucket(bs, (offset + i + 1) % opts.size), i + 1, sp)

\* updateOffset advancing lastTime by span intervals instead of aligning it to now.
updateOffsetBySpan(now1, now2) ==
    LET sp == span(now1)
    IN  IF sp <= 0
        THEN [offset |-> offset, lastTime |-> lastTime, buckets |-> buckets]
        ELSE [offset   |-> (offset + sp) % opts.size,
              lastTime |-> lastTime + sp * opts.interval,
              buckets  |-> resetLoop(buckets, 0, sp)]

\* The new offset without the reduction modulo size.
rotateNoWrap(sp, now2) ==
    [offset   |-> offset + sp,
     lastTime |-> now2 - GoMod(now2 - lastTime, opts.interval),
     buckets  |-> resetLoop(buckets, 0, sp)]

\* updateOffset after span() returned sp > 0: the reset loop, then offset, then
\* lastTime from the clock reading now2 of ktime.Now().
rotate(sp, now2) ==
    [offset   |-> (offset + sp) % opts.size,
     lastTime |-> now2 - GoMod(now2 - lastTime, opts.interval),
     buckets  |-> resetLoop(buckets, 0, sp)]

\* RollingWindow.updateOffset. It reads the clock twice: now1 in span(), and
\* now2 in ktime.Now() after the reset loop.
updateOffset(now1, now2) ==
    LET sp == span(now1)
    IN  IF sp <= 0
        THEN [offset |-> offset, lastTime |-> lastTime, buckets |-> buckets]
        ELSE rotate(sp, now2)

\* The number of valid buckets without the ignoreCurrent case.
validDiffAll(sp) == opts.size - sp

\* The number of buckets Reduce and GetLastValidBucket take as valid.
validDiff(sp) ==
    IF sp = 0 /\ opts.ignoreCurrent THEN opts.size - 1 ELSE opts.size - sp

\* The traversal starting at the first rotated slot instead of after it.
startSlotOffByOne(sp) == (offset + sp) % opts.size

\* The first slot of the traversal.
startSlot(sp) == (offset + sp + 1) % opts.size

\* A Reduce that takes the span to be 0 and skips no slot.
ReduceVisitsNoSpan(now) ==
    LET diff == validDiff(0)
    IN  IF diff > 0 THEN reduce(startSlot(0), diff) ELSE <<>>

\* What a Reduce at clock reading now passes to its visitor.
ReduceVisits(now) ==
    LET sp == span(now)
        diff == validDiff(sp)
    IN  IF diff > 0 THEN reduce(startSlot(sp), diff) ELSE <<>>

\* GetLastValidBucket always returning the bucket at offset.
LastValidAtOffset(now) ==
    LET sp == span(now)
        diff == validDiff(sp)
    IN  IF diff <= 0
        THEN [found |-> FALSE, slot |-> -1, b |-> EmptyBucket]
        ELSE [found |-> TRUE, slot |-> offset, b |-> buckets[offset]]

\* What GetLastValidBucket returns at clock reading now.
LastValid(now) ==
    LET sp == span(now)
        diff == validDiff(sp)
        lastPos == (startSlot(sp) + diff - 1) % opts.size
    IN  IF diff <= 0
        THEN [found |-> FALSE, slot |-> -1, b |-> EmptyBucket]
        ELSE [found |-> TRUE, slot |-> lastPos, b |-> buckets[lastPos]]

\* The interval of the window's grid (origin + k * interval) that holds t.
Cell(t) == (t - origin) \div opts.interval

\* The record of a call: the operation, the clock reading at its return, the
\* span it computed, offset and lastTime at its start, what it returned, the
\* clock reading of the call before it when that was a Reduce (else -1), the
\* interval of the latest Add (else -1) and the number of Adds made in it.
Call(op, now, sp, r) ==
    [op |-> op, now |-> now, span |-> sp, offset0 |-> offset, lastTime0 |-> lastTime,
     found |-> r.found, slot |-> r.slot, b |-> r.b,
     prevReduce |-> IF last.op = "Reduce" THEN last.now ELSE -1,
     addCell |-> IF op = "Add" THEN Cell(now) ELSE last.addCell,
     cellAdds |-> IF op # "Add" THEN last.cellAdds
                  ELSE IF last.addCell = Cell(now) THEN last.cellAdds + 1 ELSE 1]

NoResult == [found |-> FALSE, slot |-> -1, b |-> EmptyBucket]

\* The local variables of a goroutine outside a call.
\* offset0, lastTime0, buckets0 (history): the window when the call started.
NoLocals == [span |-> 0, tmp |-> 0, slot |-> 0, start |-> 0, diff |-> 0,
             offset0 |-> 0, lastTime0 |-> 0, buckets0 |-> <<>>, seen |-> <<>>]

\* ------------------------------------------------------------ actions
\* A window built by NewRollingWindow with one of the options in os.
WinInitOf(os) ==
    /\ opts \in os
    /\ clock \in 0..MaxInit
    /\ offset = 0
    /\ lastTime = clock
    /\ origin = clock
    /\ buckets = newWindow(opts.size)
    /\ adds = 0
    /\ last = [op |-> "New", now |-> clock, span |-> 0, offset0 |-> 0, lastTime0 |-> clock,
               found |-> FALSE, slot |-> -1, b |-> EmptyBucket,
               prevReduce |-> -1, addCell |-> -1, cellAdds |-> 0]
    /\ visited = <<>>
    /\ lock = [w |-> 0, r |-> {}]
    /\ pc = [p \in Procs |-> "idle"]
    /\ loc = [p \in Procs |-> NoLocals]
    /\ calls = [p \in Procs |-> 0]

\* A window built by NewRollingWindow with WithSize, WithInterval and
\* WithIgnoreCurrent.
WinInitWith(sizes) ==
    WinInitOf([size : sizes, interval : 1..MaxInterval, ignoreCurrent : BOOLEAN])

WinInit == WinInitWith(1..MaxSize)

\* NewRollingWindow has returned a window.
NewDone == stage = "window" /\ nopt = 0

\* new(Bucket[T]): the zero value.
BucketNew == bkt = EmptyBucket /\ blog = <<>> /\ bop = "New" /\ bresets = 0

\* No RollingResultCounter yet.
CounterNone ==
    /\ cnt = <<>>
    /\ chist = [success |-> <<>>, fail |-> <<>>]
    /\ creport = [success |-> <<>>, fail |-> <<>>]
    /\ clast = [op |-> "None", now |-> 0, n |-> 0]

\* A Do call not made yet; history: handled counts the invocations of its
\* timeoutHandler, late tells that one came after its end function returned,
\* early that its end function was called before its timer fired.
NoCall == [st |-> "none", id |-> -1, endpc |-> "no", handled |-> 0, late |-> FALSE,
           early |-> FALSE]

\* NewTimeoutController, and the UniqueNode before its first Generate (its
\* zero timestamp lies before epoch: -1).
TimeoutNew ==
    /\ wall = 0
    /\ node = [timestamp |-> -1, sequence |-> 0]
    /\ callIDs = {}
    /\ tc = [c \in 1..MaxDo |-> NoCall]

\* The locals and the return values of a call of retry.Do that has not started.
NoDo == [pc |-> "none", attempt |-> 0, errs |-> <<>>, delay |-> 0, fired |-> FALSE,
         ret |-> [ok |-> FALSE, val |-> "zero", errs |-> <<>>]]

\* History of a retry: the calls of Do started and, for the running call, what
\* each invocation of exec returned, the delays of its timers, whether Ctx was
\* done when it started, whether Ctx became done while it was blocked in
\* select and the number of invocations then.
NoHist == [calls |-> 0, outs |-> <<>>, delays |-> <<>>, atStart |-> FALSE, inWait |-> FALSE,
           execsThen |-> 0]

\* No retry yet.
RetryNone ==
    /\ ropts = [times |-> 0, custom |-> <<>>, stopOn |-> {}, ctx |-> "Background"]
    /\ backoff = 0
    /\ rctx = "active"
    /\ rdo = NoDo
    /\ rhist = NoHist

\* No call of RangeInOrder yet.
RangeNone == km = [pc |-> "idle", m |-> {}, sort |-> "none", keys |-> <<>>, i |-> 0,
                   called |-> <<>>]

\* No call of LoopConc yet. w[k] is the position of the goroutine of s[k-1] and
\* count[k] the number of invocations of fn for it.
LoopNone == lc = [pc |-> "idle", n |-> 0, given |-> FALSE, conc |-> 0, cap |-> 0, ch |-> 0,
                  i |-> 0, wg |-> 0, w |-> [k \in 1..MaxItems |-> "none"],
                  count |-> [k \in 1..MaxItems |-> 0]]

\* No call of LoopConcAsync yet.
ZeroResult == [key |-> 0, out |-> "none"]

AsyncNone == la = [pc |-> "idle", n |-> 0, conc |-> 0, concCh |-> 0, i |-> 0, prod |-> "none",
                   wg |-> 0, isCancel |-> FALSE, closed |-> FALSE,
                   w |-> [k \in 1..MaxItems |-> "none"],
                   result |-> [k \in 1..MaxItems |-> ZeroResult],
                   outs |-> [k \in 1..MaxItems |-> "none"],
                   cons |-> "none", received |-> <<>>]

MoreInit == RetryNone /\ RangeNone /\ LoopNone /\ AsyncNone

CompInit == BucketNew /\ CounterNone /\ TimeoutNew /\ MoreInit

ExtInit == NewDone /\ CompInit

Init == WinInit /\ ExtInit

\* The clock advances, up to end.
TickUntil(end) ==
    /\ clock < end
    /\ clock' = clock + 1
    /\ UNCHANGED <<opts, offset, lastTime, buckets, origin, adds, last, visited, concVars, extVars>>

\* The clock advances.
Tick == TickUntil(MaxTime)

\* RollingWindow.Add(v) before the clock reads more than end: d clock units
\* pass between the two clock readings of updateOffset (none when
\* updateOffset returns early).
AddUntil(v, end) ==
    \E d \in 0..MaxDelay :
        LET now1 == clock
            now2 == clock + d
            u == updateOffset(now1, now2)
        IN  /\ now2 <= end
            /\ span(now1) <= 0 => d = 0
            /\ adds < MaxAdds
            /\ adds' = adds + 1
            /\ clock' = now2
            /\ offset' = u.offset
            /\ lastTime' = u.lastTime
            /\ buckets' = add(u.buckets, u.offset, v, now2)
            /\ last' = Call("Add", now2, span(now1), NoResult)
            /\ UNCHANGED <<opts, origin, visited, concVars, extVars>>

\* RollingWindow.Add(v).
Add(v) == AddUntil(v, MaxTime)

\* Reduce rotating the window first, as Add does.
ReduceRotating ==
    \E d \in 0..MaxDelay :
        LET u == updateOffset(clock, clock + d)
        IN  /\ clock + d <= MaxTime
            /\ span(clock) <= 0 => d = 0
            /\ clock' = clock + d
            /\ offset' = u.offset
            /\ lastTime' = u.lastTime
            /\ buckets' = u.buckets
            /\ visited' = [i \in 1..validDiff(0) |->
                              [slot |-> (u.offset + i) % opts.size,
                               b |-> u.buckets[(u.offset + i) % opts.size]]]
            /\ last' = Call("Reduce", clock + d, span(clock), NoResult)
            /\ UNCHANGED <<opts, origin, adds, concVars, extVars>>

\* RollingWindow.Reduce(fn), fn recording its arguments.
Reduce ==
    /\ visited' = ReduceVisits(clock)
    /\ last' = Call("Reduce", clock, span(clock), NoResult)
    /\ UNCHANGED <<opts, offset, lastTime, buckets, clock, origin, adds, concVars, extVars>>

\* RollingWindow.GetLastValidBucket().
GetLastValidBucket ==
    /\ last' = Call("GetLastValidBucket", clock, span(clock), LastValid(clock))
    /\ UNCHANGED <<opts, offset, lastTime, buckets, clock, origin, adds, visited, concVars, extVars>>

Next ==
    \/ Tick
    \/ \E v \in Values : Add(v)
    \/ Reduce
    \/ GetLastValidBucket

Spec == Init /\ [][Next]_vars

\* Example_requestCounter: windows of WithSize(5) besides the sizes above, that
\* report the current bucket.
ExampleSize == 5

InitExample ==
    /\ WinInitWith({1, ExampleSize})
    /\ ~opts.ignoreCurrent
    /\ ExtInit

SpecExample == InitExample /\ [][Next]_vars

\* ------------------------------------------- goroutines, step by step
\* The calls of Add and Reduce statement by statement, for goroutines that
\* share one window. sync.RWMutex: Lock waits until nobody holds the lock,
\* RLock until nobody holds it exclusively. (Go also makes a new RLock wait
\* while a Lock is pending; that only removes behaviours of this model.)
seqHist == <<adds, last, visited>>

Goto(p, label) == pc' = [pc EXCEPT ![p] = label]

\* The clock advances while the goroutines run.
TickConc ==
    /\ clock < MaxConcTime
    /\ clock' = clock + 1
    /\ UNCHANGED <<opts, offset, lastTime, buckets, origin, seqHist, concVars, extVars>>

\* Add taking the lock shared (RLock) instead of exclusively.
AddLockShared(p) ==
    /\ pc[p] = "idle" /\ calls[p] < AddsPerProducer
    /\ lock.w = 0
    /\ lock' = [lock EXCEPT !.r = @ \cup {p}]
    /\ Goto(p, "a_span")
    /\ UNCHANGED <<opts, offset, lastTime, buckets, clock, origin, seqHist, extVars, loc, calls>>

\* Add: rw.lock.Lock().
AddLock(p) ==
    /\ pc[p] = "idle" /\ calls[p] < AddsPerProducer
    /\ lock.w = 0 /\ lock.r = {}
    /\ lock' = [lock EXCEPT !.w = p]
    /\ Goto(p, "a_span")
    /\ UNCHANGED <<opts, offset, lastTime, buckets, clock, origin, seqHist, extVars, loc, calls>>

\* updateOffset: span := rw.span(), and the early return.
AddSpan(p) ==
    /\ pc[p] = "a_span"
    /\ loc' = [loc EXCEPT ![p].span = span(clock)]
    /\ Goto(p, IF span(clock) <= 0 THEN "a_loadSum" ELSE "a_rotate")
    /\ UNCHANGED <<opts, offset, lastTime, buckets, clock, origin, seqHist, extVars, lock, calls>>

\* updateOffset: the reset loop, rw.offset, now := ktime.Now(), rw.lastTime.
AddRotate(p) ==
    LET u == rotate(loc[p].span, clock)
    IN  /\ pc[p] = "a_rotate"
        /\ offset' = u.offset
        /\ lastTime' = u.lastTime
        /\ buckets' = u.buckets
        /\ Goto(p, "a_loadSum")
        /\ UNCHANGED <<opts, clock, origin, seqHist, extVars, lock, loc, calls>>

\* rw.win.add(rw.offset, v) and b.Sum += v: the read of Sum.
AddLoadSum(p) ==
    /\ pc[p] = "a_loadSum"
    /\ loc' = [loc EXCEPT ![p].slot = offset % opts.size,
                          ![p].tmp = buckets[offset % opts.size].Sum]
    /\ Goto(p, "a_storeSum")
    /\ UNCHANGED <<opts, offset, lastTime, buckets, clock, origin, seqHist, extVars, lock, calls>>

\* b.Sum += v: the write of Sum (v = 1).
AddStoreSum(p) ==
    /\ pc[p] = "a_storeSum"
    /\ buckets' = [buckets EXCEPT ![loc[p].slot].Sum = loc[p].tmp + 1,
                                  ![loc[p].slot].added = @ \cup {clock}]
    /\ Goto(p, "a_loadCount")
    /\ UNCHANGED <<opts, offset, lastTime, clock, origin, seqHist, extVars, lock, loc, calls>>

\* b.Count++: the read of Count.
AddLoadCount(p) ==
    /\ pc[p] = "a_loadCount"
    /\ loc' = [loc EXCEPT ![p].tmp = buckets[loc[p].slot].Count]
    /\ Goto(p, "a_storeCount")
    /\ UNCHANGED <<opts, offset, lastTime, buckets, clock, origin, seqHist, extVars, lock, calls>>

\* b.Count++: the write of Count.
AddStoreCount(p) ==
    /\ pc[p] = "a_storeCount"
    /\ buckets' = [buckets EXCEPT ![loc[p].slot].Count = loc[p].tmp + 1]
    /\ Goto(p, "a_unlock")
    /\ UNCHANGED <<opts, offset, lastTime, clock, origin, seqHist, extVars, lock, loc, calls>>

\* Add returning with the lock still held.
AddReturnLocked(p) ==
    /\ pc[p] = "a_unlock"
    /\ loc' = [loc EXCEPT ![p] = NoLocals]
    /\ calls' = [calls EXCEPT ![p] = @ + 1]
    /\ Goto(p, "idle")
    /\ UNCHANGED <<opts, offset, lastTime, buckets, clock, origin, seqHist, extVars, lock>>

\* Add: the deferred rw.lock.Unlock(), and the return.
AddUnlock(p) ==
    /\ pc[p] = "a_unlock"
    /\ lock' = [w |-> IF lock.w = p THEN 0 ELSE lock.w, r |-> lock.r \ {p}]
    /\ loc' = [loc EXCEPT ![p] = NoLocals]
    /\ calls' = [calls EXCEPT ![p] = @ + 1]
    /\ Goto(p, "idle")
    /\ UNCHANGED <<opts, offset, lastTime, buckets, clock, origin, seqHist, extVars>>

\* The locals of a Reduce that starts now.
ReduceLocals ==
    [NoLocals EXCEPT !.offset0 = offset, !.lastTime0 = lastTime, !.buckets0 = buckets]

\* Reduce without taking the lock.
ReduceNoLock(p) ==
    /\ pc[p] = "idle" /\ calls[p] < ReducesPerReader
    /\ loc' = [loc EXCEPT ![p] = ReduceLocals]
    /\ Goto(p, "r_span")
    /\ UNCHANGED <<opts, offset, lastTime, buckets, clock, origin, seqHist, extVars, lock, calls>>

\* Reduce: rw.lock.RLock().
ReduceRLock(p) ==
    /\ pc[p] = "idle" /\ calls[p] < ReducesPerReader
    /\ lock.w = 0
    /\ lock' = [lock EXCEPT !.r = @ \cup {p}]
    /\ loc' = [loc EXCEPT ![p] = ReduceLocals]
    /\ Goto(p, "r_span")
    /\ UNCHANGED <<opts, offset, lastTime, buckets, clock, origin, seqHist, extVars, calls>>

\* Reduce: span, diff and the first slot.
ReduceSpan(p) ==
    LET sp == span(clock)
        diff == validDiff(sp)
    IN  /\ pc[p] = "r_span"
        /\ loc' = [loc EXCEPT ![p].span = sp, ![p].diff = diff,
                              ![p].start = IF diff > 0 THEN startSlot(sp) ELSE 0]
        /\ Goto(p, IF diff > 0 THEN "r_visit" ELSE "r_unlock")
        /\ UNCHANGED <<opts, offset, lastTime, buckets, clock, origin, seqHist, extVars, lock, calls>>

\* window.reduce: one iteration, fn(w.buckets[(start+i)%w.size]).
ReduceVisit(p) ==
    LET i == Len(loc[p].seen)
        slot == (loc[p].start + i) % opts.size
    IN  /\ pc[p] = "r_visit"
        /\ loc' = [loc EXCEPT ![p].seen = Append(@, [slot |-> slot, b |-> buckets[slot]])]
        /\ Goto(p, IF i + 1 < loc[p].diff THEN "r_visit" ELSE "r_unlock")
        /\ UNCHANGED <<opts, offset, lastTime, buckets, clock, origin, seqHist, extVars, lock, calls>>

\* Reduce: the deferred rw.lock.RUnlock(), and the return.
ReduceRUnlock(p) ==
    /\ pc[p] = "r_unlock"
    /\ lock' = [lock EXCEPT !.r = @ \ {p}]
    /\ calls' = [calls EXCEPT ![p] = @ + 1]
    /\ Goto(p, "idle")
    /\ UNCHANGED <<opts, offset, lastTime, buckets, clock, origin, seqHist, extVars, loc>>

NextConc ==
    \/ TickConc
    \/ \E p \in Producers :
          \/ AddLock(p)
          \/ AddSpan(p)
          \/ AddRotate(p)
          \/ AddLoadSum(p)
          \/ AddStoreSum(p)
          \/ AddLoadCount(p)
          \/ AddStoreCount(p)
          \/ AddUnlock(p)
    \/ \E p \in Readers :
          \/ ReduceRLock(p)
          \/ ReduceSpan(p)
          \/ ReduceVisit(p)
          \/ ReduceRUnlock(p)

SpecConc == Init /\ [][NextConc]_vars


\* --------------------------------------------------- NewRollingWindow
\* The construction of a window, option by option, and the calls on what it
\* returned. NewRollingWindowOptions gives the defaults; the clock unit of
\* this specification is one second, so that time.Minute is 60.
DefaultSize == 10

DefaultInterval == 60

\* NewRollingWindowOptions().
NewRollingWindowOptions ==
    [size |-> DefaultSize, interval |-> DefaultInterval, ignoreCurrent |-> FALSE]

\* The caller is about to call NewRollingWindow: the options hold the
\* defaults, there is no window yet.
InitNew ==
    /\ stage = "options"
    /\ nopt = 0
    /\ opts = NewRollingWindowOptions
    /\ clock \in 0..MaxInit
    /\ offset = 0
    /\ lastTime = 0
    /\ origin = 0
    /\ buckets = <<>>
    /\ adds = 0
    /\ last = [op |-> "None", now |-> clock, span |-> 0, offset0 |-> 0, lastTime0 |-> 0,
               found |-> FALSE, slot |-> -1, b |-> EmptyBucket,
               prevReduce |-> -1, addCell |-> -1, cellAdds |-> 0]
    /\ visited = <<>>
    /\ lock = [w |-> 0, r |-> {}]
    /\ pc = [p \in Procs |-> "idle"]
    /\ loc = [p \in Procs |-> NoLocals]
    /\ calls = [p \in Procs |-> 0]
    /\ CompInit

\* What the option loop of NewRollingWindow leaves alone.
NewFrame ==
    UNCHANGED <<offset, lastTime, buckets, clock, origin, adds, last, visited, concVars, compVars>>

\* WithSize(s): no validation.
WithSize(s) ==
    /\ stage = "options" /\ nopt < MaxOpts
    /\ opts' = [opts EXCEPT !.size = s]
    /\ nopt' = nopt + 1
    /\ UNCHANGED stage
    /\ NewFrame

\* WithInterval(i): no validation.
WithInterval(i) ==
    /\ stage = "options" /\ nopt < MaxOpts
    /\ opts' = [opts EXCEPT !.interval = i]
    /\ nopt' = nopt + 1
    /\ UNCHANGED stage
    /\ NewFrame

\* WithIgnoreCurrent(b).
WithIgnoreCurrent(b) ==
    /\ stage = "options" /\ nopt < MaxOpts
    /\ opts' = [opts EXCEPT !.ignoreCurrent = b]
    /\ nopt' = nopt + 1
    /\ UNCHANGED stage
    /\ NewFrame

NewRollingWindowClamping ==
    /\ stage = "options"
    /\ stage' = "window"
    /\ opts' = [opts EXCEPT !.size = IF opts.size < 1 THEN 1 ELSE opts.size]
    /\ offset' = 0
    /\ lastTime' = clock
    /\ origin' = clock
    /\ buckets' = newWindow(opts'.size)
    /\ last' = [last EXCEPT !.op = "New", !.now = clock, !.lastTime0 = clock]
    /\ UNCHANGED <<nopt, clock, adds, visited, concVars, compVars>>

\* NewRollingWindow after its option loop: panic("size must be greater than
\* 0") when size < 1, else the window: newWindow(size), offset 0 (the zero
\* value), lastTime: ktime.Now().
NewRollingWindow ==
    /\ stage = "options"
    /\ IF opts.size < 1
       THEN /\ stage' = "panicked"
            /\ UNCHANGED <<offset, lastTime, origin, buckets, last>>
       ELSE /\ stage' = "window"
            /\ offset' = 0
            /\ lastTime' = clock
            /\ origin' = clock
            /\ buckets' = newWindow(opts.size)
            /\ last' = [last EXCEPT !.op = "New", !.now = clock, !.lastTime0 = clock]
    /\ UNCHANGED <<opts, nopt, clock, adds, visited, concVars, compVars>>

\* The clock reading of a later call is earlier than one before: initTime is
\* time.Now().AddDate(-1, -1, -1), AddDate drops the monotonic reading, so
\* time.Since(initTime) follows the wall clock, which can be set back.
ClockBack ==
    /\ \E t \in 0..(clock - 1) : clock' = t
    /\ UNCHANGED <<opts, offset, lastTime, buckets, origin, adds, last, visited, concVars, extVars>>

\* span() divides two integers: a run-time panic ("integer divide by zero")
\* when the interval is 0.
SpanPanics == opts.interval = 0

Methods == {"Add", "Reduce", "GetLastValidBucket"}

\* Add, Reduce and GetLastValidBucket all start by span(): the method op
\* panics there. (Add and Reduce by defer release the lock first.)
MethodPanics(op) ==
    /\ stage = "window"
    /\ SpanPanics
    /\ stage' = "crashed"
    /\ last' = [last EXCEPT !.op = op, !.now = clock]
    /\ UNCHANGED <<opts, offset, lastTime, buckets, clock, origin, adds, visited, concVars, nopt, compVars>>

\* A method call on the window that NewRollingWindow returned.
NewCall(A) == stage = "window" /\ ~SpanPanics /\ A

\* The clock advances.
NewTick == clock < MaxNewTime /\ Tick

NextNew ==
    \/ \E s \in (-NegSizes)..MaxNewSize : WithSize(s)
    \/ \E i \in 0..MaxInterval : WithInterval(i)
    \/ \E b \in BOOLEAN : WithIgnoreCurrent(b)
    \/ NewRollingWindow
    \/ NewTick
    \/ ClockBack
    \/ \E v \in Values : NewCall(adds < MaxNewAdds /\ Add(v))
    \/ NewCall(Reduce)
    \/ NewCall(GetLastValidBucket)
    \/ \E op \in Methods : MethodPanics(op)

SpecNew == InitNew /\ [][NextNew]_vars

\* ------------------------------------- GetLastValidBucket, step by step
\* A goroutine that calls GetLastValidBucket and then reads the fields of the
\* bucket it was given. The buckets of a window are allocated once and reset
\* in place, so the reference returned is the slot.

\* GetLastValidBucket: rw.lock.RLock().
GetRLock(p) ==
    /\ pc[p] = "idle" /\ calls[p] < LockCalls
    /\ lock.w = 0
    /\ lock' = [lock EXCEPT !.r = @ \cup {p}]
    /\ loc' = [loc EXCEPT ![p] = ReduceLocals]
    /\ Goto(p, "g_span")
    /\ UNCHANGED <<opts, offset, lastTime, buckets, clock, origin, seqHist, extVars, calls>>

\* GetLastValidBucket: span, diff, lastPos; slot -1 stands for the zero value
\* returned with false.
GetLastPos(p) ==
    LET r == LastValid(clock)
    IN  /\ pc[p] = "g_span"
        /\ loc' = [loc EXCEPT ![p].span = span(clock), ![p].diff = validDiff(span(clock)),
                              ![p].slot = r.slot]
        /\ Goto(p, "g_unlock")
        /\ UNCHANGED <<opts, offset, lastTime, buckets, clock, origin, seqHist, extVars, lock, calls>>

\* GetLastValidBucket: the deferred rw.lock.RUnlock(), and the return of
\* rw.win.buckets[lastPos], the bucket itself.
GetRUnlock(p) ==
    /\ pc[p] = "g_unlock"
    /\ lock' = [lock EXCEPT !.r = @ \ {p}]
    /\ calls' = [calls EXCEPT ![p] = @ + 1]
    /\ Goto(p, IF loc[p].slot >= 0 THEN "u_sum" ELSE "idle")
    /\ UNCHANGED <<opts, offset, lastTime, buckets, clock, origin, seqHist, extVars, loc>>

\* The caller reads b.Sum of the bucket it was given.
UseSum(p) ==
    /\ pc[p] = "u_sum"
    /\ loc' = [loc EXCEPT ![p].tmp = buckets[loc[p].slot].Sum]
    /\ Goto(p, "u_count")
    /\ UNCHANGED <<opts, offset, lastTime, buckets, clock, origin, seqHist, extVars, lock, calls>>

\* The caller reads b.Count of the bucket it was given.
UseCount(p) ==
    /\ pc[p] = "u_count"
    /\ loc' = [loc EXCEPT ![p].seen = <<[slot |-> loc[p].slot,
                                         b |-> [Sum |-> loc[p].tmp,
                                                Count |-> buckets[loc[p].slot].Count,
                                                added |-> {}]]>>]
    /\ Goto(p, "idle")
    /\ UNCHANGED <<opts, offset, lastTime, buckets, clock, origin, seqHist, extVars, lock, calls>>

\* Where a caller of GetLastValidBucket reads the bucket it was given.
UseLabels == {"u_sum", "u_count"}

\* One step of a call of the goroutine p.
StepOf(p) ==
    \/ /\ p \in Producers
       /\ \/ AddLock(p)
          \/ AddSpan(p)
          \/ AddRotate(p)
          \/ AddLoadSum(p)
          \/ AddStoreSum(p)
          \/ AddLoadCount(p)
          \/ AddStoreCount(p)
          \/ AddUnlock(p)
    \/ /\ p \in Readers
       /\ \/ ReduceRLock(p)
          \/ ReduceSpan(p)
          \/ ReduceVisit(p)
          \/ ReduceRUnlock(p)
    \/ /\ p \in Getters
       /\ \/ GetRLock(p)
          \/ GetLastPos(p)
          \/ GetRUnlock(p)
          \/ UseSum(p)
          \/ UseCount(p)

\* One step of the goroutine p, which makes LockCalls calls.
Step(p) ==
    /\ pc[p] = "idle" => calls[p] < LockCalls
    /\ StepOf(p)

\* One window shared by all the goroutines.
InitLock ==
    /\ Init
    /\ opts.size = 2 /\ opts.interval = 1
    /\ clock = 0

NextLock ==
    \/ TickConc
    \/ \E p \in Procs : Step(p)

SpecLock == InitLock /\ [][NextLock]_vars

\* The scheduler runs every goroutine that can take a step; a goroutine
\* blocked in Lock or RLock can take its step once the lock is released.
SpecLockFair == SpecLock /\ \A p \in Procs : WF_vars(Step(p))

\* ------------------------------------------------------ a Bucket alone
\* Add and Reset called on one Bucket, outside any window.
InitBucket ==
    /\ Init
    /\ opts = [size |-> 1, interval |-> 1, ignoreCurrent |-> FALSE]
    /\ clock = 0

\* b.Add(v).
BAdd(v) ==
    /\ Len(blog) < MaxLog
    /\ bkt' = [BucketAdd(bkt, v, 0) EXCEPT !.added = {}]
    /\ blog' = Append(blog, v)
    /\ bop' = "Add"
    /\ UNCHANGED <<winVars, newVars, bresets, cntVars, tcVars, moreVars>>

\* b.Reset().
BReset ==
    /\ bresets < MaxResets
    /\ bkt' = BucketReset(bkt)
    /\ blog' = <<>>
    /\ bop' = "Reset"
    /\ bresets' = bresets + 1
    /\ UNCHANGED <<winVars, newVars, cntVars, tcVars, moreVars>>

NextBucket ==
    \/ \E v \in (-NegValues)..MaxValue : BAdd(v)
    \/ BReset

SpecBucket == InitBucket /\ [][NextBucket]_vars

\* ------------------------------------------------ RollingResultCounter
\* Two windows built from the same options. A window is a record here:
\* offset, lastTime, buckets, and (history) origin, its first lastTime.
Windows == {"success", "fail"}

\* NewRollingWindow at clock reading now.
WindowAt(now) ==
    [offset |-> 0, lastTime |-> now, buckets |-> newWindow(opts.size), origin |-> now]

\* RollingWindow.span of the window w.
spanOf(w, now) ==
    LET off == GoDiv(Since(now, w.lastTime), opts.interval)
    IN  IF 0 <= off /\ off < opts.size THEN off ELSE opts.size

\* RollingWindow.updateOffset of the window w, its two clock readings now1, now2.
updateOffsetOf(w, now1, now2) ==
    LET sp == spanOf(w, now1)
    IN  IF sp <= 0 THEN w
        ELSE [w EXCEPT
                !.buckets = [j \in Slots |->
                               IF \E i \in 0..(sp - 1) : j = (w.offset + i + 1) % opts.size
                               THEN BucketReset(w.buckets[j]) ELSE w.buckets[j]],
                !.offset = (w.offset + sp) % opts.size,
                !.lastTime = now2 - GoMod(now2 - w.lastTime, opts.interval)]

\* RollingWindow.Add(v) on the window w.
AddOf(w, v, now1, now2) ==
    LET u == updateOffsetOf(w, now1, now2)
    IN  [u EXCEPT !.buckets = add(u.buckets, u.offset, v, now2)]

\* RollingWindow.Reduce on the window w: (Count, Sum) of the buckets visited.
ReduceOf(w, now) ==
    LET sp == spanOf(w, now)
        diff == validDiff(sp)
    IN  IF diff > 0
        THEN [i \in 1..diff |->
                [Count |-> w.buckets[(w.offset + sp + 1 + i - 1) % opts.size].Count,
                 Sum   |-> w.buckets[(w.offset + sp + 1 + i - 1) % opts.size].Sum]]
        ELSE <<>>

\* The next record of the last call; n alternates from call to call.
CLast(op, now) == [op |-> op, now |-> now, n |-> 1 - clast.n]

\* NewRollingResultCounter: the two NewRollingWindow calls read the clock one
\* after the other.
NewRollingResultCounter ==
    /\ cnt = <<>>
    /\ \E d \in 0..MaxDelay :
          /\ clock + d <= MaxCntTime
          /\ cnt' = [success |-> WindowAt(clock), fail |-> WindowAt(clock + d)]
          /\ clock' = clock + d
          /\ clast' = CLast("New", clock + d)
    /\ UNCHANGED <<opts, offset, lastTime, buckets, origin, adds, last, visited, concVars,
                   newVars, bktVars, tcVars, moreVars, chist, creport>>

\* The clock advances.
CounterTick ==
    /\ clock < MaxCntTime
    /\ clock' = clock + 1
    /\ UNCHANGED <<opts, offset, lastTime, buckets, origin, adds, last, visited, concVars,
                   newVars, bktVars, tcVars, moreVars, cntVars>>

\* An Add of v on the window named to of the counter, recorded under the
\* name by; d clock units pass between the two clock readings of updateOffset.
CounterAdd(to, by, v) ==
    /\ cnt # <<>>
    /\ Len(chist[by]) < MaxCntAdds
    /\ \E d \in 0..MaxDelay :
          /\ clock + d <= MaxCntTime
          /\ spanOf(cnt[to], clock) <= 0 => d = 0
          /\ cnt' = [cnt EXCEPT ![to] = AddOf(cnt[to], v, clock, clock + d)]
          /\ chist' = [chist EXCEPT ![by] = Append(@, [v |-> v, t |-> clock + d])]
          /\ clock' = clock + d
    /\ UNCHANGED <<opts, offset, lastTime, buckets, origin, adds, last, visited, concVars,
                   newVars, bktVars, tcVars, moreVars, creport>>

\* RollingResultCounter.AddSuccess(consumeTime).
AddSuccess(v) == CounterAdd("success", "success", v) /\ clast' = CLast("AddSuccess", clock')

\* AddFail adding to the success window.
AddFailToSuccess(v) == CounterAdd("success", "fail", v) /\ clast' = CLast("AddFail", clock')

\* RollingResultCounter.AddFail(consumeTime).
AddFail(v) == CounterAdd("fail", "fail", v) /\ clast' = CLast("AddFail", clock')

\* RollingResultCounter.Reduce(successFn, failFn), the functions recording
\* their arguments.
CounterReduce ==
    /\ cnt # <<>>
    /\ creport' = [w \in Windows |-> ReduceOf(cnt[w], clock)]
    /\ clast' = CLast("Reduce", clock)
    /\ UNCHANGED <<winVars, newVars, bktVars, tcVars, moreVars, cnt, chist>>

NextCounter ==
    \/ NewRollingResultCounter
    \/ CounterTick
    \/ \E v \in Values : AddSuccess(v)
    \/ \E v \in Values : AddFail(v)
    \/ CounterReduce

SpecCounter == Init /\ [][NextCounter]_vars

\* --------------------------------------------------- TimeoutController
\* kunique: the layout of an ID, and the node GenerateUniqueID uses.
nodeIDBits == 6

sequenceBits == 16

sequenceMask == 2^sequenceBits - 1

DefaultNodeID == 1

\* t<<timestampShift | nodeID<<nodeIDShift | sequence.
MakeID(t, seq) == t * 2^(sequenceBits + nodeIDBits) + DefaultNodeID * 2^sequenceBits + seq

\* UniqueNode.Generate at wall clock reading now: the new node and the ID.
\* When the sequence wraps, the loop waits for a reading after timestamp; the
\* ID is built from that reading (the next millisecond here).
Generate(now) ==
    LET seq == IF node.timestamp = now THEN (node.sequence + 1) % (sequenceMask + 1) ELSE 0
        t == IF node.timestamp = now /\ seq = 0 THEN node.timestamp + 1 ELSE now
    IN  [node |-> [timestamp |-> t, sequence |-> seq], id |-> MakeID(t, seq)]

\* The wall clock advances.
WallTick ==
    /\ wall < MaxMs
    /\ wall' = wall + 1
    /\ UNCHANGED <<winVars, newVars, bktVars, cntVars, moreVars, node, callIDs, tc>>

\* The wall clock is set back.
WallBack ==
    /\ \E t \in 0..(wall - 1) : wall' = t
    /\ UNCHANGED <<winVars, newVars, bktVars, cntVars, moreVars, node, callIDs, tc>>

\* Do: callID := kunique.GenerateUniqueID().
DoGenerate(c) ==
    /\ tc[c].st = "none"
    /\ c > 1 => tc[c - 1].st # "none"
    /\ node' = Generate(wall).node
    /\ tc' = [tc EXCEPT ![c].st = "generated", ![c].id = Generate(wall).id]
    /\ UNCHANGED <<winVars, newVars, bktVars, cntVars, moreVars, wall, callIDs>>

\* Do: t.callIDs[callID] = struct{}{} under the lock, time.AfterFunc, and the
\* return of the end function.
DoRegister(c) ==
    /\ tc[c].st = "generated"
    /\ callIDs' = callIDs \cup {tc[c].id}
    /\ tc' = [tc EXCEPT ![c].st = "armed"]
    /\ UNCHANGED <<winVars, newVars, bktVars, cntVars, moreVars, wall, node>>

\* The duration of the call c elapses: its timer starts the callback.
TimerFire(c) ==
    /\ tc[c].st = "armed"
    /\ tc' = [tc EXCEPT ![c].st = "fired"]
    /\ UNCHANGED <<winVars, newVars, bktVars, cntVars, moreVars, wall, node, callIDs>>

\* The callback of the timer of the call c, under the lock: timeoutHandler()
\* and delete when callIDs holds callID.
TimerCallback(c) ==
    /\ tc[c].st = "fired"
    /\ IF tc[c].id \in callIDs
       THEN /\ callIDs' = callIDs \ {tc[c].id}
            /\ tc' = [tc EXCEPT ![c].st = "done", ![c].handled = @ + 1,
                                ![c].late = (tc[c].endpc = "returned")]
       ELSE /\ tc' = [tc EXCEPT ![c].st = "done"]
            /\ UNCHANGED callIDs
    /\ UNCHANGED <<winVars, newVars, bktVars, cntVars, moreVars, wall, node>>

\* end: timer.Stop(). A timer that has fired is not stopped, and Stop does not
\* wait for its callback.
EndStop(c) ==
    /\ tc[c].st \in {"armed", "fired", "done"}
    /\ tc[c].endpc = "no"
    /\ tc' = [tc EXCEPT ![c].endpc = "stopping",
                        ![c].st = IF @ = "armed" THEN "stopped" ELSE @,
                        ![c].early = (tc[c].st = "armed")]
    /\ UNCHANGED <<winVars, newVars, bktVars, cntVars, moreVars, wall, node, callIDs>>

\* end: delete(t.callIDs, callID) under the lock, and the return.
EndDelete(c) ==
    /\ tc[c].endpc = "stopping"
    /\ callIDs' = callIDs \ {tc[c].id}
    /\ tc' = [tc EXCEPT ![c].endpc = "returned"]
    /\ UNCHANGED <<winVars, newVars, bktVars, cntVars, moreVars, wall, node>>

NextTimeout ==
    \/ WallTick
    \/ WallBack
    \/ \E c \in 1..MaxDo :
          \/ DoGenerate(c)
          \/ DoRegister(c)
          \/ TimerFire(c)
          \/ TimerCallback(c)
          \/ EndStop(c)
          \/ EndDelete(c)

\* NewTimeoutController has returned; no Do call was made, no ID generated.
InitTimeout == InitBucket

SpecTimeout == InitTimeout /\ [][NextTimeout]_vars

\* The runtime runs the callback of every timer that has fired.
SpecTimeoutFair == SpecTimeout /\ \A c \in 1..MaxDo : WF_vars(TimerCallback(c))

\* -------------------------------------------------------------- kretry
\* Durations are in milliseconds.
DefaultRetryTimes == 3

BackoffFactor == 2

BackoffMin == 100

BackoffMax == 10000

\* The errors exec returns, and the contexts a retry is given.
Errors == {"error", "skip retry"}

Contexts == {"Background", "WithCancel", "WithTimeout"}

\* The CustomDelay slices a retry is given.
CustomDelays == {<<>>, <<0>>, <<50, 100>>, <<50, 100, 150>>}

\* Backoff.ForAttempt with the options of NewBackOffOptions (no jitter): min *
\* factor^attempt, at most max. Beyond attempt 20 the product exceeds max.
ForAttempt(attempt) ==
    IF attempt > 20 THEN BackoffMax
    ELSE LET dur == BackoffMin * BackoffFactor^attempt
         IN  IF dur < BackoffMin THEN BackoffMin
             ELSE IF dur > BackoffMax THEN BackoffMax ELSE dur

\* mergeErrors: nil for no error, else errors.Join.
mergeErrors(errs) == [ok |-> errs = <<>>, val |-> "zero", errs |-> errs]

RetryFrame == UNCHANGED <<winVars, newVars, bktVars, cntVars, tcVars, kmVars, slVars>>

\* New with WithTimes(t), WithCustomDelay(cd), WithErrHandler (true for the
\* errors in so), WithContext(cx): panics when CustomDelay is not empty and
\* its length differs from AttemptTimes.
RetryNew(t, cd, so, cx) ==
    /\ rdo.pc = "none"
    /\ IF Len(cd) > 0 /\ Len(cd) # t
       THEN rdo' = [rdo EXCEPT !.pc = "panicked"] /\ UNCHANGED ropts
       ELSE /\ rdo' = [rdo EXCEPT !.pc = "idle"]
            /\ ropts' = [times |-> t, custom |-> cd, stopOn |-> so, ctx |-> cx]
    /\ UNCHANGED <<backoff, rctx, rhist>>
    /\ RetryFrame

\* The context is cancelled or its deadline passes. A Do blocked in select
\* is woken for the case <-Ctx.Done().
CtxDone ==
    /\ rdo.pc \notin {"none", "panicked"}
    /\ ropts.ctx # "Background"
    /\ rctx = "active"
    /\ \E e \in (IF ropts.ctx = "WithTimeout" THEN {"DeadlineExceeded", "Canceled"}
                 ELSE {"Canceled"}) : rctx' = e
    /\ rdo' = [rdo EXCEPT !.pc = IF @ = "blocked" THEN "sel_ctx" ELSE @]
    /\ rhist' = [rhist EXCEPT !.inWait = (rdo.pc = "blocked"), !.execsThen = Len(rhist.outs)]
    /\ UNCHANGED <<ropts, backoff>>
    /\ RetryFrame

\* The timer of the delay fires. A Do blocked in select is woken for the case
\* <-timer.C.
RetryTimerFire ==
    /\ rdo.pc \in {"select", "blocked"}
    /\ ~rdo.fired
    /\ rdo' = [rdo EXCEPT !.fired = TRUE, !.pc = IF @ = "blocked" THEN "sel_timer" ELSE @]
    /\ UNCHANGED <<ropts, backoff, rctx, rhist>>
    /\ RetryFrame

\* A Do without the check of Ctx.Err() before the loop.
DoStartNoCheck ==
    /\ rdo.pc \in {"idle", "returned"}
    /\ rhist.calls < MaxDoCalls
    /\ rhist' = [NoHist EXCEPT !.calls = rhist.calls + 1, !.atStart = (rctx # "active")]
    /\ rdo' = [NoDo EXCEPT !.pc = "loop"]
    /\ UNCHANGED <<ropts, backoff, rctx>>
    /\ RetryFrame

\* retry.Do: the check of Ctx.Err() before the loop.
DoStart ==
    /\ rdo.pc \in {"idle", "returned"}
    /\ rhist.calls < MaxDoCalls
    /\ rhist' = [NoHist EXCEPT !.calls = rhist.calls + 1, !.atStart = (rctx # "active")]
    /\ rdo' = IF rctx # "active"
              THEN [NoDo EXCEPT !.pc = "returned",
                                !.ret = [ok |-> FALSE, val |-> "zero", errs |-> <<rctx>>]]
              ELSE [NoDo EXCEPT !.pc = "loop"]
    /\ UNCHANGED <<ropts, backoff, rctx>>
    /\ RetryFrame

\* A loop with attempt <= AttemptTimes.
DoLoopInclusive ==
    /\ rdo.pc = "loop"
    /\ rdo' = IF rdo.attempt <= ropts.times
              THEN [rdo EXCEPT !.pc = "exec"]
              ELSE [rdo EXCEPT !.pc = "returned", !.ret = mergeErrors(rdo.errs)]
    /\ UNCHANGED <<ropts, backoff, rctx, rhist>>
    /\ RetryFrame

\* retry.Do: attempt < AttemptTimes, and the return after the loop.
DoLoop ==
    /\ rdo.pc = "loop"
    /\ rdo' = IF rdo.attempt < ropts.times
              THEN [rdo EXCEPT !.pc = "exec"]
              ELSE [rdo EXCEPT !.pc = "returned", !.ret = mergeErrors(rdo.errs)]
    /\ UNCHANGED <<ropts, backoff, rctx, rhist>>
    /\ RetryFrame

\* A Do that waits although ErrorHandler returned true.
DoExecNoHandler(out) ==
    /\ rdo.pc = "exec"
    /\ rhist' = [rhist EXCEPT !.outs = Append(@, out),
                              !.delays = IF out = "ok" THEN @
                                         ELSE Append(@, IF Len(ropts.custom) > 0
                                                        THEN ropts.custom[rdo.attempt + 1]
                                                        ELSE ForAttempt(backoff))]
    /\ IF out = "ok"
       THEN /\ rdo' = [rdo EXCEPT !.pc = "returned",
                                  !.ret = [ok |-> TRUE, val |-> "value", errs |-> <<>>]]
            /\ UNCHANGED backoff
       ELSE /\ rdo' = [rdo EXCEPT !.pc = "select", !.fired = FALSE,
                                  !.errs = Append(@, out),
                                  !.delay = IF Len(ropts.custom) > 0
                                            THEN ropts.custom[rdo.attempt + 1]
                                            ELSE ForAttempt(backoff)]
            /\ backoff' = IF Len(ropts.custom) > 0 THEN backoff ELSE backoff + 1
    /\ UNCHANGED <<ropts, rctx>>
    /\ RetryFrame

\* retry.Do: exec returns out ("ok" or an error); the return on success, the
\* return when ErrorHandler gives true, else errs, the delay from CustomDelay
\* or Backoff.Duration(), and the timer.
DoExec(out) ==
    /\ rdo.pc = "exec"
    /\ rhist' = [rhist EXCEPT !.outs = Append(@, out),
                              !.delays = IF out = "ok" \/ out \in ropts.stopOn THEN @
                                         ELSE Append(@, IF Len(ropts.custom) > 0
                                                        THEN ropts.custom[rdo.attempt + 1]
                                                        ELSE ForAttempt(backoff))]
    /\ IF out = "ok"
       THEN /\ rdo' = [rdo EXCEPT !.pc = "returned",
                                  !.ret = [ok |-> TRUE, val |-> "value", errs |-> <<>>]]
            /\ UNCHANGED backoff
       ELSE IF out \in ropts.stopOn
       THEN /\ rdo' = [rdo EXCEPT !.pc = "returned",
                                  !.ret = [ok |-> FALSE, val |-> "zero", errs |-> <<out>>]]
            /\ UNCHANGED backoff
       ELSE /\ rdo' = [rdo EXCEPT !.pc = "select", !.fired = FALSE,
                                  !.errs = Append(@, out),
                                  !.delay = IF Len(ropts.custom) > 0
                                            THEN ropts.custom[rdo.attempt + 1]
                                            ELSE ForAttempt(backoff)]
            /\ backoff' = IF Len(ropts.custom) > 0 THEN backoff ELSE backoff + 1
    /\ UNCHANGED <<ropts, rctx>>
    /\ RetryFrame

\* retry.Do: select. With a case ready it takes one of the ready cases, else
\* it blocks until CtxDone or RetryTimerFire wakes it.
DoSelect ==
    /\ rdo.pc = "select"
    /\ \E next \in ({"sel_ctx" : x \in {1} \cap (IF rctx # "active" THEN {1} ELSE {})}
                    \cup {"sel_timer" : x \in {1} \cap (IF rdo.fired THEN {1} ELSE {})}
                    \cup {"blocked" : x \in {1} \cap (IF rctx = "active" /\ ~rdo.fired
                                                     THEN {1} ELSE {})}) :
          rdo' = [rdo EXCEPT !.pc = next]
    /\ UNCHANGED <<ropts, backoff, rctx, rhist>>
    /\ RetryFrame

\* retry.Do: case <-r.opts.Ctx.Done().
DoCtxDone ==
    /\ rdo.pc = "sel_ctx"
    /\ rdo' = [rdo EXCEPT !.pc = "returned", !.errs = Append(@, rctx),
                          !.ret = mergeErrors(Append(rdo.errs, rctx))]
    /\ UNCHANGED <<ropts, backoff, rctx, rhist>>
    /\ RetryFrame

\* retry.Do: case <-timer.C, and attempt++.
DoTimer ==
    /\ rdo.pc = "sel_timer"
    /\ rdo' = [rdo EXCEPT !.pc = "loop", !.attempt = @ + 1]
    /\ UNCHANGED <<ropts, backoff, rctx, rhist>>
    /\ RetryFrame

NextRetry ==
    \/ \E t \in 0..MaxTimes, cd \in CustomDelays, so \in SUBSET Errors, cx \in Contexts :
          RetryNew(t, cd, so, cx)
    \/ CtxDone
    \/ RetryTimerFire
    \/ DoStart
    \/ DoLoop
    \/ \E out \in {"ok"} \cup Errors : DoExec(out)
    \/ DoSelect
    \/ DoCtxDone
    \/ DoTimer

SpecRetry == InitBucket /\ [][NextRetry]_vars

\* ---------------------------------------------------------------- kmap
\* The maps given to RangeInOrder are the sets of keys in 1..MaxKey, m[k]
\* being the value of key k. Go ranges over a map in any order.
Keys == 1..MaxKey

Sorts == {"none", "asc", "desc"}

KeyOrders(m) == {o \in [1..Cardinality(m) -> m] : \A a, b \in 1..Cardinality(m) :
                                                       a # b => o[a] # o[b]}

swap(arr, a, b) == [arr EXCEPT ![a] = arr[b], ![b] = arr[a]]

\* kalgo.partition after the swap with the random index: the loop from j, and
\* the last swap. Indices count from 1.
RECURSIVE partitionLoop(_, _, _, _, _)
partitionLoop(arr, i, j, r, sort) ==
    IF j < r
    THEN IF (sort = "asc" /\ arr[j] <= arr[r]) \/ (sort # "asc" /\ arr[j] >= arr[r])
         THEN partitionLoop(swap(arr, i, j), i + 1, j + 1, r, sort)
         ELSE partitionLoop(arr, i, j + 1, r, sort)
    ELSE [arr |-> swap(arr, i, r), q |-> i]

\* kalgo.partition with randomIndex the result of l + rand.Intn(r-l+1).
partition(arr, l, r, sort, randomIndex) ==
    partitionLoop(swap(arr, r, randomIndex), l, l, r, sort)

\* kalgo.QuickSort: the arrays it can leave, one for every choice of the
\* random indices.
RECURSIVE QuickSort(_, _, _, _)
QuickSort(arr, l, r, sort) ==
    IF l >= r THEN {arr}
    ELSE UNION {UNION {QuickSort(left, p.q + 1, r, sort) :
                          left \in QuickSort(p.arr, l, p.q - 1, sort)} :
                   p \in {partition(arr, l, r, sort, ri) : ri \in l..r}}

KmapFrame == UNCHANGED <<winVars, newVars, bktVars, cntVars, tcVars, rtVars, slVars>>

\* RangeInOrder(m, fn, sort...) up to the loop over the sorted keys: the
\* return for len(m) <= 1, the keys in the order of the map, QuickSort.
RangeInOrder(m, sort) ==
    /\ km.pc = "idle"
    /\ IF Cardinality(m) <= 1
       THEN km' = [km EXCEPT !.pc = "returned", !.m = m, !.sort = sort]
       ELSE \E order \in KeyOrders(m) :
            \E keys \in QuickSort(order, 1, Len(order), IF sort = "none" THEN "asc" ELSE sort) :
                km' = [km EXCEPT !.pc = "range", !.m = m, !.sort = sort, !.keys = keys]
    /\ KmapFrame

\* RangeInOrder: fn(m[k], k) for the next of the keys.
RangeFn ==
    /\ km.pc = "range"
    /\ km.i < Len(km.keys)
    /\ km' = [km EXCEPT !.i = @ + 1, !.called = Append(@, km.keys[km.i + 1])]
    /\ KmapFrame

\* RangeInOrder: the end of the loop.
RangeReturn ==
    /\ km.pc = "range"
    /\ km.i = Len(km.keys)
    /\ km' = [km EXCEPT !.pc = "returned"]
    /\ KmapFrame

NextKmap ==
    \/ \E m \in SUBSET Keys, sort \in Sorts : RangeInOrder(m, sort)
    \/ RangeFn
    \/ RangeReturn

SpecKmap == InitBucket /\ [][NextKmap]_vars

\* -------------------------------------------------------------- kslice
LoopFrame == UNCHANGED <<winVars, newVars, bktVars, cntVars, tcVars, rtVars, kmVars, la>>

\* LoopConc(s, fn, concurrency...) with len(s) = n: given tells whether the
\* concurrency argument is there, c is its value. make(chan struct{}, c)
\* panics for a negative c.
LoopConc(n, given, c) ==
    /\ lc.pc = "idle"
    /\ lc' = [lc EXCEPT !.n = n, !.given = given, !.conc = c,
                        !.cap = IF given THEN c ELSE 1,
                        !.pc = IF given /\ c < 0 THEN "panicked" ELSE "loop"]
    /\ LoopFrame

\* LoopConc: wg.Add(1), ch <- struct{}{} and the go statement for the next
\* element. The send needs room in the buffer of ch; the only receivers of ch
\* are the goroutines started after a send.
LoopSend ==
    /\ lc.pc = "loop"
    /\ lc.i < lc.n
    /\ lc.ch < lc.cap
    /\ lc' = [lc EXCEPT !.wg = @ + 1, !.ch = @ + 1, !.i = @ + 1, !.w[lc.i + 1] = "fn"]
    /\ LoopFrame

\* The goroutine of element k: fn(i, item).
LoopFn(k) ==
    /\ lc.w[k] = "fn"
    /\ lc' = [lc EXCEPT !.w[k] = "done", !.count[k] = @ + 1]
    /\ LoopFrame

\* The goroutine of element k: the deferred wg.Done().
LoopDone(k) ==
    /\ lc.w[k] = "done"
    /\ lc' = [lc EXCEPT !.w[k] = "recv", !.wg = @ - 1]
    /\ LoopFrame

\* The goroutine of element k: the deferred <-ch.
LoopRecv(k) ==
    /\ lc.w[k] = "recv"
    /\ lc.ch > 0
    /\ lc' = [lc EXCEPT !.w[k] = "exit", !.ch = @ - 1]
    /\ LoopFrame

\* LoopConc: the end of the loop, and wg.Wait() returns.
LoopWait ==
    /\ lc.pc = "loop"
    /\ lc.i = lc.n
    /\ lc.wg = 0
    /\ lc' = [lc EXCEPT !.pc = "returned"]
    /\ LoopFrame

NextLoop ==
    \/ \E n \in 0..MaxItems, c \in (-NegConc)..MaxConc : LoopConc(n, TRUE, c)
    \/ \E n \in 0..MaxItems : LoopConc(n, FALSE, 0)
    \/ LoopSend
    \/ \E k \in 1..MaxItems : LoopFn(k)
    \/ \E k \in 1..MaxItems : LoopDone(k)
    \/ \E k \in 1..MaxItems : LoopRecv(k)
    \/ LoopWait

SpecLoop == InitBucket /\ [][NextLoop]_vars

\* The Go scheduler runs every goroutine that can run.
SpecLoopFair ==
    /\ SpecLoop
    /\ WF_vars(LoopSend)
    /\ WF_vars(LoopWait)
    /\ \A k \in 1..MaxItems : WF_vars(LoopFn(k)) /\ WF_vars(LoopDone(k)) /\ WF_vars(LoopRecv(k))

\* LoopConcAsync. la.w[k] is the position of the goroutine of s[k-1] (index
\* k-1), la.result[k] its local result, la.outs[k] what exec did for it,
\* la.prod the position of the goroutine with the loop, la.cons that of the
\* consumer of resultCh and la.received the results it got. isCancel is set
\* together with the cancellation of ctx.
AsyncFrame == UNCHANGED <<winVars, newVars, bktVars, cntVars, tcVars, rtVars, kmVars, lc>>

\* What exec does for an item.
Outcomes == {"value", "error", "panic"}

\* The invocations of exec that are running.
Running == {k \in 1..MaxItems : la.w[k] = "running"}

\* LoopConcAsync(s, exec, concurrency...) with len(s) = n: conc is
\* concurrency[0] when it is there and positive, else 1; the goroutine with
\* the loop is started and resultCh and the cancel function are returned.
LoopConcAsync(n, given, c) ==
    /\ la.pc = "idle"
    /\ la' = [la EXCEPT !.pc = "called", !.n = n,
                        !.conc = IF given /\ c > 0 THEN c ELSE 1,
                        !.prod = "send", !.cons = "ranging"]
    /\ AsyncFrame

\* A loop that starts the goroutines without waiting for room in concCh.
AsyncSendUnbounded ==
    /\ la.prod = "send"
    /\ la.i < la.n
    /\ la' = [la EXCEPT !.concCh = @ + 1, !.prod = "check"]
    /\ AsyncFrame

\* The loop: concCh <- struct{}{}, which needs room in the buffer.
AsyncSend ==
    /\ la.prod = "send"
    /\ la.i < la.n
    /\ la.concCh < la.conc
    /\ la' = [la EXCEPT !.concCh = @ + 1, !.prod = "check"]
    /\ AsyncFrame

\* The loop: the return with close(resultCh) when isCancel is set, else
\* wg.Add(1) and the go statement for the item.
AsyncSpawn ==
    /\ la.prod = "check"
    /\ la' = IF la.isCancel
             THEN [la EXCEPT !.prod = "exit", !.closed = TRUE]
             ELSE [la EXCEPT !.prod = "send", !.wg = @ + 1, !.i = @ + 1, !.w[la.i + 1] = "exec"]
    /\ AsyncFrame

\* After the loop: wg.Wait() returns and the deferred close(resultCh).
AsyncWait ==
    /\ la.prod = "send"
    /\ la.i = la.n
    /\ la.wg = 0
    /\ la' = [la EXCEPT !.prod = "exit", !.closed = TRUE]
    /\ AsyncFrame

\* The goroutine of item k enters exec(item).
ExecBegin(k) ==
    /\ la.w[k] = "exec"
    /\ la' = [la EXCEPT !.w[k] = "running"]
    /\ AsyncFrame

\* exec(item) returns a value or an error, and result gets Key: index; or it
\* panics, and the recover sets result.Error alone: Key stays 0.
ExecEnd(k, out) ==
    /\ la.w[k] = "running"
    /\ la' = [la EXCEPT !.w[k] = "check", !.outs[k] = out,
                        !.result[k] = IF out = "panic" THEN [key |-> 0, out |-> "panic"]
                                      ELSE [key |-> k - 1, out |-> out]]
    /\ AsyncFrame

\* The goroutine of item k: if isCancel.Load() { return }.
AsyncCheck(k) ==
    /\ la.w[k] = "check"
    /\ la' = [la EXCEPT !.w[k] = IF la.isCancel THEN "release" ELSE "select"]
    /\ AsyncFrame

\* The goroutine of item k: select. case resultCh <- result needs the
\* consumer to receive, or panics on the closed channel; case <-ctx.Done()
\* needs the cancellation.
AsyncSelect(k) ==
    /\ la.w[k] = "select"
    /\ \/ /\ la.cons = "ranging"
          /\ ~la.closed
          /\ la' = [la EXCEPT !.w[k] = "release", !.received = Append(@, la.result[k])]
       \/ /\ la.closed
          /\ la' = [la EXCEPT !.w[k] = "panicked"]
       \/ /\ la.isCancel
          /\ la' = [la EXCEPT !.w[k] = "release"]
    /\ AsyncFrame

\* The goroutine of item k: the deferred <-concCh and wg.Done().
AsyncRelease(k) ==
    /\ la.w[k] = "release"
    /\ la.concCh > 0
    /\ la' = [la EXCEPT !.w[k] = "exit", !.concCh = @ - 1, !.wg = @ - 1]
    /\ AsyncFrame

\* The consumer's range over resultCh ends when the channel is closed.
ConsumerEnd ==
    /\ la.cons = "ranging"
    /\ la.closed
    /\ la' = [la EXCEPT !.cons = "done"]
    /\ AsyncFrame

\* The consumer calls the cancel function, isCancel.Store(true) and cancel(),
\* and goes on receiving or stops.
AsyncCancel(stop) ==
    /\ la.cons = "ranging"
    /\ ~la.isCancel
    /\ la' = [la EXCEPT !.isCancel = TRUE, !.cons = IF stop THEN "stopped" ELSE @]
    /\ AsyncFrame

NextAsync ==
    \/ \E n \in 0..MaxItems, c \in (-NegConc)..MaxConc : LoopConcAsync(n, TRUE, c)
    \/ \E n \in 0..MaxItems : LoopConcAsync(n, FALSE, 0)
    \/ AsyncSend
    \/ AsyncSpawn
    \/ AsyncWait
    \/ \E k \in 1..MaxItems : ExecBegin(k)
    \/ \E k \in 1..MaxItems, out \in Outcomes : ExecEnd(k, out)
    \/ \E k \in 1..MaxItems : AsyncCheck(k)
    \/ \E k \in 1..MaxItems : AsyncSelect(k)
    \/ \E k \in 1..MaxItems : AsyncRelease(k)
    \/ ConsumerEnd
    \/ \E stop \in BOOLEAN : AsyncCancel(stop)

SpecAsync == InitBucket /\ [][NextAsync]_vars

\* The Go scheduler runs every goroutine that can run, exec returns or
\* panics, and the consumer receives as long as it ranges over resultCh.
SpecAsyncFair ==
    /\ SpecAsync
    /\ WF_vars(AsyncSend) /\ WF_vars(AsyncSpawn) /\ WF_vars(AsyncWait) /\ WF_vars(ConsumerEnd)
    /\ \A k \in 1..MaxItems :
          /\ WF_vars(ExecBegin(k))
          /\ WF_vars(\E out \in Outcomes : ExecEnd(k, out))
          /\ WF_vars(AsyncCheck(k))
          /\ WF_vars(AsyncSelect(k))
          /\ WF_vars(AsyncRelease(k))

\* ---------------------------------------------- the documented walkthrough
\* "示例场景设定": size=3, interval=1s, ignoreCurrent=true, the window built at
\* t=0s, then Add(100), Add(200), Add(300) and Reduce(). The clock counts
\* tenths of a second.
WalkSize == 3

WalkInterval == 10

WalkValues == <<100, 200, 300>>

InitWalk ==
    /\ WinInitOf({[size |-> WalkSize, interval |-> WalkInterval, ignoreCurrent |-> TRUE]})
    /\ clock = 0
    /\ ExtInit

\* The next Add of the operation sequence, at any time.
WalkAdd ==
    /\ adds < Len(WalkValues)
    /\ AddUntil(WalkValues[adds + 1], WalkEnd)

NextWalk ==
    \/ TickUntil(WalkEnd)
    \/ WalkAdd
    \/ Reduce

SpecWalk == InitWalk /\ [][NextWalk]_vars

\* ------------------------------------------------------------ claims
Reads == {"Reduce", "GetLastValidBucket"}

\* C1: every value held by a bucket that Reduce visited was added less than
\* size*interval before that Reduce.
ReduceReportsOnlyRecent ==
    last.op = "Reduce" =>
        \A i \in 1..Len(visited) : \A t \in visited[i].b.added :
            last.now - t < opts.size * opts.interval

\* C2: under every interleaving no two Adds update a bucket at once, and when
\* NumProducers producers have each completed AddsPerProducer calls of Add(1)
\* within one interval (no rotation: lastTime is still the construction time),
\* the current bucket has Count = Sum = NumProducers * AddsPerProducer.
InAdd == {"a_span", "a_rotate", "a_loadSum", "a_storeSum", "a_loadCount", "a_storeCount",
          "a_unlock"}

NoLostAdds ==
    /\ Cardinality({p \in Producers : pc[p] \in InAdd}) <= 1
    /\ ((\A p \in Producers : calls[p] = AddsPerProducer) /\ lastTime = origin) =>
           /\ buckets[offset].Count = NumProducers * AddsPerProducer
           /\ buckets[offset].Sum = NumProducers * AddsPerProducer

NoLostAddsWitness ==
    /\ \A p \in Producers : calls[p] = AddsPerProducer
    /\ lastTime = origin
    /\ buckets[offset].Count = NumProducers * AddsPerProducer
    /\ Cardinality(buckets[offset].added) > 1

\* C3: while a Reduce holds the shared lock no Add is in progress, offset,
\* lastTime and the buckets are those of the moment it took the lock, and what
\* its visitor has been passed is the traversal of that one window state.
InReduce == {"r_span", "r_visit", "r_unlock"}

ReduceSeesSnapshot ==
    \A p \in Readers : pc[p] \in InReduce =>
        /\ lock.w = 0
        /\ \A q \in Producers : pc[q] = "idle"
        /\ offset = loc[p].offset0 /\ lastTime = loc[p].lastTime0
        /\ buckets = loc[p].buckets0
        /\ \A i \in 1..Len(loc[p].seen) :
               /\ loc[p].seen[i].slot = (loc[p].start + i - 1) % opts.size
               /\ loc[p].seen[i].b = loc[p].buckets0[loc[p].seen[i].slot]
        /\ pc[p] = "r_unlock" => Len(loc[p].seen) = IF loc[p].diff > 0 THEN loc[p].diff ELSE 0

ReduceSeesSnapshotWitness ==
    \E p \in Readers :
        /\ pc[p] = "r_unlock" /\ Len(loc[p].seen) >= 2
        /\ \E i \in 1..Len(loc[p].seen) : loc[p].seen[i].b.Count > 0
        /\ \E q \in Producers : calls[q] > 0 /\ calls[q] < AddsPerProducer

\* C4: with ignoreCurrent and span = 0, Reduce visits exactly size - 1 buckets,
\* none of them the bucket at offset.
IgnoreCurrentSkipsCurrent ==
    (last.op = "Reduce" /\ opts.ignoreCurrent /\ last.span = 0) =>
        /\ Len(visited) = opts.size - 1
        /\ \A i \in 1..Len(visited) : visited[i].slot # offset

IgnoreCurrentWitness ==
    /\ last.op = "Reduce" /\ opts.ignoreCurrent /\ last.span = 0
    /\ opts.size = 3 /\ buckets[offset].Count > 0 /\ offset > 0
    /\ Len(visited) = 2

ReduceVisitsDiffSlots ==
    last.op = "Reduce" =>
        LET diff == IF last.span = 0 /\ opts.ignoreCurrent
                    THEN opts.size - 1 ELSE opts.size - last.span
        IN  /\ Len(visited) = IF diff <= 0 THEN 0 ELSE diff
            /\ \A i \in 1..Len(visited) :
                   /\ visited[i].slot = (last.offset0 + last.span + i) % opts.size
                   /\ visited[i].b = buckets[visited[i].slot]

ReduceVisitsDiffSlotsWitness ==
    /\ last.op = "Reduce" /\ last.span = 1 /\ opts.size = 3
    /\ Len(visited) = 2 /\ visited[1].slot = 2 /\ visited[2].slot = 0
    /\ visited[2].b.Count > 0

\* C9: Reduce visits the buckets oldest first: every value of a bucket was
\* added before every value of the bucket visited next.
Chronological(vs) ==
    \A i \in 1..(Len(vs) - 1) : \A j \in (i + 1)..Len(vs) :
        \A t1 \in vs[i].b.added : \A t2 \in vs[j].b.added : t1 < t2

ReduceOldestFirst == Chronological(ReduceVisits(clock)) /\ Chronological(visited)

ReduceOldestFirstWitness ==
    /\ last.op = "Reduce" /\ Len(visited) = 3
    /\ \A i \in 1..3 : visited[i].b.Count > 0
    /\ visited[1].slot # 0

\* C10: GetLastValidBucket finds no bucket exactly when a Reduce at the same
\* moment visits none, and otherwise returns the bucket that Reduce visits
\* last: the bucket at offset when Reduce visits it, else the one before it.
LastValidIsLastVisited ==
    LET r == LastValid(clock)
        vs == ReduceVisits(clock)
    IN  /\ r.found <=> Len(vs) > 0
        /\ r.found =>
              /\ r.slot = vs[Len(vs)].slot
              /\ r.b = vs[Len(vs)].b
              /\ r.slot = IF \E i \in 1..Len(vs) : vs[i].slot = offset
                          THEN offset ELSE (offset + opts.size - 1) % opts.size
        /\ (last.op = "GetLastValidBucket" /\ last.now = clock) =>
              /\ last.found = r.found
              /\ last.slot = r.slot

LastValidWitness ==
    /\ last.op = "GetLastValidBucket" /\ last.found
    /\ opts.ignoreCurrent /\ last.span = 0
    /\ last.slot # offset /\ last.b.Count > 0 /\ buckets[offset].Count > 0

\* C11: NewRollingWindow panics whenever the size it is given is below 1 and
\* never replaces it by another size; given a size of at least 1 it returns
\* a window of exactly that many empty buckets with offset 0; given no option
\* at all that is a window of 10 buckets, interval one minute, ignoreCurrent
\* false.
NewRollingWindowValidates ==
    [][(stage = "options" /\ stage' # "options") =>
         /\ opts' = opts
         /\ opts.size < 1 => stage' = "panicked"
         /\ opts.size >= 1 =>
              /\ stage' = "window"
              /\ offset' = 0
              /\ DOMAIN buckets' = 0..(opts.size - 1)
              /\ \A i \in DOMAIN buckets' : buckets'[i] = EmptyBucket
         /\ nopt = 0 =>
              /\ stage' = "window"
              /\ opts' = [size |-> 10, interval |-> 60, ignoreCurrent |-> FALSE]
              /\ DOMAIN buckets' = 0..9]_vars

NewRollingWindowPanicked == stage = "panicked" /\ opts.size = 0 /\ buckets = <<>>

\* C12: on every window that NewRollingWindow accepted, no call of Add,
\* Reduce or GetLastValidBucket panics, whatever the clock readings, and
\* every bucket index they compute is in 0..size-1.
IndicesInRange ==
    stage = "window" =>
        /\ offset \in Slots
        /\ last.slot \in Slots \cup {-1}
        /\ \A i \in 1..Len(visited) : visited[i].slot \in Slots

MethodsTotal == stage # "crashed" /\ IndicesInRange

\* C13: in every reachable state of a window, 0 <= offset < size.
OffsetInRange == 0 <= offset /\ offset < opts.size

\* An Add rotated the window from its last slot round to slot 0.
OffsetWrapped ==
    /\ last.op = "Add" /\ last.span > 0
    /\ opts.size >= 2 /\ last.offset0 = opts.size - 1 /\ offset = 0

\* C14: on a window of size S that reports the current bucket, a Reduce made
\* in the first interval after n Adds visits exactly S buckets, the first
\* S - 1 with Count 0 and the last with Count n.
InFirstInterval == last.op = "Reduce" /\ last.span = 0 /\ lastTime = origin

FreshReduceCounts ==
    (InFirstInterval /\ ~opts.ignoreCurrent) =>
        /\ Len(visited) = opts.size
        /\ \A i \in 1..(opts.size - 1) : visited[i].b.Count = 0
        /\ visited[opts.size].b.Count = adds

\* Example_requestCounter: size 5, Add(1) twice, Reduce reports 0, 0, 0, 0, 2.
RequestCounterOutput ==
    /\ InFirstInterval /\ opts.size = ExampleSize /\ adds = 2
    /\ [i \in 1..Len(visited) |-> visited[i].b.Count] = <<0, 0, 0, 0, 2>>
    /\ visited[ExampleSize].b.Sum = 2

\* C15: on a window of size 1 that reports the current bucket, a Reduce made
\* in the interval of the Adds before it (the first interval when there was
\* none) visits exactly one bucket, whose Count is the number of those Adds.
SameIntervalReduce ==
    /\ last.op = "Reduce" /\ opts.size = 1 /\ ~opts.ignoreCurrent
    /\ Cell(last.now) = (IF adds = 0 THEN 0 ELSE last.addCell)

SingleBucketCounts ==
    SameIntervalReduce =>
        /\ Len(visited) = 1
        /\ visited[1].b.Count = last.cellAdds

\* Example_rateLimiter after one Add(1) in a later interval than an earlier
\* Add: the single bucket reports 1.
RateLimiterOutput ==
    /\ SameIntervalReduce /\ adds = 2 /\ last.cellAdds = 1
    /\ Len(visited) = 1 /\ visited[1].b.Count = 1

\* C16: goroutines calling Add, Reduce and GetLastValidBucket on one window,
\* under fair scheduling: every call returns, so that no goroutine waits for
\* the lock forever and the goroutines never deadlock.
EveryCallReturns ==
    \A p \in Procs : \A n \in 0..(LockCalls - 1) : (calls[p] = n) ~> (calls[p] = n + 1)

\* Both producers wait in Lock while the reader and the getter share the lock.
LockContended ==
    /\ \A p \in Producers : pc[p] = "idle" /\ calls[p] < LockCalls
    /\ \E q \in Readers : q \in lock.r
    /\ \E g \in Getters : g \in lock.r

\* A caller about to read the bucket that an Add is about to write.
RacingRead ==
    \E p \in Getters : \E q \in Producers :
        /\ pc[p] \in UseLabels /\ pc[q] \in {"a_storeSum", "a_storeCount"}
        /\ loc[q].slot = loc[p].slot

\* C17: no caller holds a reference through which it reads a bucket's Sum or
\* Count while an Add writes that bucket, and every read of a bucket happens
\* under the lock.
BucketsNotAliased ==
    /\ \A p \in Getters : pc[p] \in UseLabels => p \in lock.r
    /\ ~RacingRead

RECURSIVE SeqSum(_)
\* The sum of the elements of the sequence s.
SeqSum(s) == IF s = <<>> THEN 0 ELSE s[1] + SeqSum(Tail(s))

\* C18: after any sequence of Add and Reset on a Bucket, Count is the number
\* of Adds since the last Reset and Sum the sum of their values; right after
\* a Reset both are zero.
BucketCounts ==
    /\ bkt.Count = Len(blog)
    /\ bkt.Sum = SeqSum(blog)
    /\ bop = "Reset" => bkt.Sum = 0 /\ bkt.Count = 0

\* Adds, a Reset, then Add(1) and Add(2).
BucketAfterReset ==
    /\ bresets = 1 /\ bop = "Add" /\ blog = <<1, 2>>
    /\ bkt.Sum = 3 /\ bkt.Count = 2

\* The interval of the grid of the window w of the counter that holds t.
CellOf(w, t) == (t - cnt[w].origin) \div opts.interval

\* The last call was a Reduce, made after exactly one AddSuccess and one
\* AddFail, both in the interval of the Reduce (on the grid of their window).
OneEachSameInterval ==
    /\ clast.op = "Reduce"
    /\ \A w \in Windows :
          /\ Len(chist[w]) = 1
          /\ CellOf(w, chist[w][1].t) = CellOf(w, clast.now)

\* The newest bucket Reduce reported is (Count 1, Sum x) for the successes
\* and (Count 1, Sum y) for the failures.
NewestIsTheAdd ==
    \A w \in Windows :
        /\ Len(creport[w]) > 0
        /\ creport[w][Len(creport[w])] = [Count |-> 1, Sum |-> chist[w][1].v]

\* C19 as stated: after one AddSuccess(x) and one AddFail(y) in the same
\* interval, on any counter, the newest bucket Reduce reports is (1, x) for
\* the successes and (1, y) for the failures.
CounterNewestAnyOptions == OneEachSameInterval => NewestIsTheAdd

\* C19: AddSuccess changes only the success window and AddFail only the fail
\* window; on a counter with ignoreCurrent false, after one AddSuccess(x) and
\* one AddFail(y), a Reduce in their interval reports as newest bucket
\* (Count 1, Sum x) for the successes and (Count 1, Sum y) for the failures.
CounterWindowsIndependent ==
    /\ []((OneEachSameInterval /\ ~opts.ignoreCurrent) => NewestIsTheAdd)
    /\ [][/\ (clast'.n # clast.n /\ clast'.op = "AddSuccess") => cnt'.fail = cnt.fail
          /\ (clast'.n # clast.n /\ clast'.op = "AddFail") => cnt'.success = cnt.success]_vars

\* TestNewRollingResultCounter with x = 2, y = 1.
CounterTestOutput ==
    /\ OneEachSameInterval /\ ~opts.ignoreCurrent
    /\ chist.success[1].v = 2 /\ chist.fail[1].v = 1
    /\ creport.success[Len(creport.success)] = [Count |-> 1, Sum |-> 2]
    /\ creport.fail[Len(creport.fail)] = [Count |-> 1, Sum |-> 1]

\* C20: for each Do call, timeoutHandler is invoked at most once, never after
\* the end function of the call has returned, and never when end was called
\* before the duration elapsed.
HandlerAtMostOnceBeforeEnd ==
    \A c \in 1..MaxDo :
        /\ tc[c].handled <= 1
        /\ ~tc[c].late
        /\ tc[c].early => tc[c].handled = 0

\* C20 while no two Do calls were given the same callID.
DistinctCallIDs ==
    \A c, d \in 1..MaxDo : (c # d /\ tc[c].id # -1) => tc[c].id # tc[d].id

HandlerContractUnlessCollision == DistinctCallIDs => HandlerAtMostOnceBeforeEnd

\* C21: when the duration of a Do call elapses before its end function is
\* called, the timeoutHandler of the call is eventually invoked, and it is
\* invoked once only.
HandlerEventuallyInvoked ==
    \A c \in 1..MaxDo :
        /\ [](tc[c].handled <= 1)
        /\ []((tc[c].st = "fired" /\ tc[c].endpc = "no") => <>(tc[c].handled = 1))

\* C21 for the calls whose end function is never called, while no two Do
\* calls were given the same callID.
HandlerInvokedUnlessCollision ==
    \A c \in 1..MaxDo :
        []((tc[c].st = "fired" /\ tc[c].endpc = "no") =>
              <>(tc[c].handled = 1 \/ tc[c].endpc # "no" \/ ~DistinctCallIDs))

\* C22: retry.Do invokes exec at most AttemptTimes times, returns (result, nil)
\* at the first invocation that succeeds, however many earlier invocations
\* failed, and never invokes exec again after a success.
DoStopsAtSuccess ==
    /\ Len(rhist.outs) <= ropts.times
    /\ \A i \in 1..Len(rhist.outs) :
          rhist.outs[i] = "ok" =>
              /\ i = Len(rhist.outs)
              /\ rdo.pc = "returned"
              /\ rdo.ret = [ok |-> TRUE, val |-> "value", errs |-> <<>>]

\* C22 witness: exec failed twice and succeeded the third time
\* ("retry twice then success"), and Do returned.
SuccessAfterFailures ==
    /\ rhist.outs = <<"error", "error", "ok">>
    /\ rdo.pc = "returned"
    /\ rdo.ret.ok

\* C22 witness: every one of the AttemptTimes invocations failed and Do returned.
AttemptsExhausted ==
    /\ Len(rhist.outs) = MaxTimes
    /\ ropts.times = MaxTimes
    /\ rdo.pc = "returned"
    /\ ~rdo.ret.ok
    /\ rctx = "active"

\* C23: when ErrorHandler returns true for the error of an attempt, retry.Do
\* returns that error at once: no timer, no wait and no further invocation
\* of exec (one invocation when the first error matches).
DoStopsOnHandledError ==
    \A i \in 1..Len(rhist.outs) :
        rhist.outs[i] \in ropts.stopOn =>
            /\ i = Len(rhist.outs)
            /\ rdo.pc = "returned"
            /\ rdo.ret = [ok |-> FALSE, val |-> "zero", errs |-> <<rhist.outs[i]>>]
            /\ Len(rhist.delays) = i - 1

\* C23 witness: "skip retry when error match", the first error matches and
\* exec was invoked once.
SkipRetryOutput ==
    /\ ropts.times = DefaultRetryTimes
    /\ ropts.stopOn = {"skip retry"}
    /\ rhist.outs = <<"skip retry">>
    /\ rdo.pc = "returned"

\* C24: when Ctx becomes done while retry.Do is blocked in the select between
\* two attempts, Do returns without a further invocation of exec and its error
\* contains Ctx.Err() (Canceled or DeadlineExceeded); when Ctx is done at the
\* start of Do, exec is never invoked and Do returns Ctx.Err().
DoStopsOnContext ==
    /\ rhist.inWait =>
          /\ rdo.pc \in {"sel_ctx", "returned"}
          /\ Len(rhist.outs) = rhist.execsThen
          /\ rctx \in {"Canceled", "DeadlineExceeded"}
          /\ rdo.pc = "returned" =>
                /\ ~rdo.ret.ok
                /\ \E i \in 1..Len(rdo.ret.errs) : rdo.ret.errs[i] = rctx
    /\ rhist.atStart =>
          /\ rhist.outs = <<>>
          /\ rdo.pc = "returned"
          /\ rdo.ret = [ok |-> FALSE, val |-> "zero", errs |-> <<rctx>>]

\* C24 witness: the deadline passed while Do waited after a failed attempt,
\* and Do returned.
DeadlineInWait ==
    /\ rhist.inWait
    /\ rctx = "DeadlineExceeded"
    /\ rdo.pc = "returned"
    /\ Len(rhist.outs) >= 1

\* C24 witness: Do was called with a cancelled context.
CancelledAtStart ==
    /\ rhist.atStart
    /\ rctx = "Canceled"
    /\ rdo.pc = "returned"

\* The options of New without arguments.
DefaultOptions ==
    /\ rdo.pc \notin {"none", "panicked"}
    /\ ropts = [times |-> DefaultRetryTimes, custom |-> <<>>, stopOn |-> {},
                ctx |-> "Background"]

\* C30: in every call of Do of a retry built with the default options there
\* are at most 3 attempts and the delays after the 1st, 2nd and 3rd failed
\* attempt are 100ms, 200ms and 400ms.
DefaultDelays ==
    DefaultOptions =>
        /\ Len(rhist.outs) <= 3
        /\ \A i \in 1..Len(rhist.delays) : rhist.delays[i] = <<100, 200, 400>>[i]

\* C30: the delays hold in the first call of Do of the retry, and later calls
\* go on in the sequence of the Backoff.
DefaultDelaysFirstCall ==
    DefaultOptions =>
        /\ Len(rhist.outs) <= 3
        /\ Len(rhist.delays) <= 3
        /\ rhist.calls = 1 =>
              \A i \in 1..Len(rhist.delays) : rhist.delays[i] = <<100, 200, 400>>[i]

\* C27: when RangeInOrder has returned, fn has been invoked exactly once for
\* every key of the map, in ascending order of the keys by default and in
\* descending order with SortDesc: once for a map of one entry, never for
\* the empty map.
RangeVisitsEveryKey ==
    km.pc = "returned" =>
        /\ Len(km.called) = Cardinality(km.m)
        /\ {km.called[i] : i \in 1..Len(km.called)} = km.m
        /\ \A i \in 1..(Len(km.called) - 1) :
              IF km.sort = "desc" THEN km.called[i] > km.called[i + 1]
              ELSE km.called[i] < km.called[i + 1]

\* C27: the same for every map but the maps of one entry.
RangeVisitsUnlessSingle ==
    (km.pc = "returned" /\ Cardinality(km.m) # 1) =>
        /\ Len(km.called) = Cardinality(km.m)
        /\ {km.called[i] : i \in 1..Len(km.called)} = km.m
        /\ \A i \in 1..(Len(km.called) - 1) :
              IF km.sort = "desc" THEN km.called[i] > km.called[i + 1]
              ELSE km.called[i] < km.called[i + 1]

\* C27: for a map of one entry RangeInOrder returns without a call of fn.
RangeSkipsSingle ==
    (km.pc = "returned" /\ Cardinality(km.m) = 1) => km.called = <<>>

\* fn has been invoked once for every element of s and LoopConc has returned.
LoopComplete ==
    /\ lc.pc = "returned"
    /\ \A k \in 1..MaxItems : lc.count[k] = (IF k <= lc.n THEN 1 ELSE 0)

\* C29: a call of LoopConc with a concurrency argument <= 0 invokes fn once
\* for every element and then returns, as with concurrency 1.
LoopNonPositiveReturns ==
    [](lc.pc # "idle" /\ lc.given /\ lc.conc <= 0 => <>LoopComplete)

\* C29: a call of LoopConc without the argument or with a positive one invokes
\* fn once for every element and then returns.
LoopPositiveReturns ==
    [](lc.pc # "idle" /\ (~lc.given \/ lc.conc > 0) => <>LoopComplete)

\* C29: a call with a negative concurrency panics, and with concurrency 0 and
\* a slice that is not empty fn is never invoked and LoopConc never returns.
LoopNonPositiveStuck ==
    (lc.given /\ lc.conc <= 0 /\ lc.n > 0) =>
        /\ lc.pc # "returned"
        /\ \A k \in 1..MaxItems : lc.count[k] = 0

\* The consumer's loop has ended and it received, for every item, exactly one
\* Result with the item's index as Key and with what exec did for the item.
OneResultPerItem ==
    /\ la.cons = "done"
    /\ Len(la.received) = la.n
    /\ \A k \in 1..la.n :
          Cardinality({j \in 1..Len(la.received) :
                          la.received[j] = [key |-> k - 1, out |-> la.outs[k]]}) = 1

\* The same, a Result of a panic having any Key.
OneResultPerItemButPanicKey ==
    /\ la.cons = "done"
    /\ Len(la.received) = la.n
    /\ \A k \in 1..la.n :
          /\ la.outs[k] # "panic" =>
                Cardinality({j \in 1..Len(la.received) :
                                la.received[j] = [key |-> k - 1, out |-> la.outs[k]]}) = 1
    /\ Cardinality({j \in 1..Len(la.received) : la.received[j].out = "panic"})
          = Cardinality({k \in 1..la.n : la.outs[k] = "panic"})

\* C25: when the consumer drains resultCh of LoopConcAsync and never calls
\* cancel, it gets exactly one Result for every item, with the item's index
\* and the value, the error or the panic of exec, and then the channel is
\* closed and its loop ends.
AsyncDrains ==
    [](la.pc = "called" => <>(la.isCancel \/ OneResultPerItem))

\* C25: the same but for the Key of the Result of a panic, which is 0.
AsyncDrainsButPanicKey ==
    [](la.pc = "called" => <>(la.isCancel \/ OneResultPerItemButPanicKey))

\* C26: never are more than `concurrency` invocations of exec running at the
\* same time in LoopConcAsync (1 for an absent or non-positive argument).
ConcurrencyBounded ==
    la.pc = "called" => Cardinality(Running) <= la.conc

\* C26 witness: with more items than concurrency, as many invocations of exec
\* as concurrency allows are running and the loop waits for room.
ConcurrencyReached ==
    /\ la.conc = MaxConc
    /\ la.n > la.conc
    /\ Cardinality(Running) = la.conc
    /\ la.prod = "send"
    /\ la.i < la.n

\* C28: no two calls of UniqueNode.Generate on the node return the same ID,
\* whatever the readings of the millisecond clock are.
GenerateUnique ==
    \A c, d \in 1..MaxDo :
        (c < d /\ tc[c].st # "none" /\ tc[d].st # "none") => tc[c].id # tc[d].id

\* C38: in every Add the number of slots by which offset advances is the
\* number of intervals by which lastTime advances, when that number is below
\* size, also when an interval boundary lies between the two clock readings
\* of updateOffset.
OffsetFollowsLastTime ==
    [][(last'.op = "Add" /\ adds' = adds + 1) =>
          LET k == (lastTime' - lastTime) \div opts.interval
          IN  k < opts.size => offset' = (offset + k) % opts.size]_vars

\* C38: offset advances by the span of the first clock reading.
OffsetFollowsSpan ==
    [][(last'.op = "Add" /\ adds' = adds + 1) =>
          offset' = (offset + last'.span) % opts.size]_vars

\* C31: the bucket j slots behind offset holds only values added in
\* [lastTime - j*interval, lastTime - (j-1)*interval), for every j in
\* 0..size-1: no bucket mixes the values of two intervals or keeps values of
\* an earlier cycle of the ring.
BucketsHoldOneInterval ==
    \A j \in Slots :
        \A t \in buckets[(offset + opts.size - j) % opts.size].added :
            /\ lastTime - j * opts.interval <= t
            /\ t < lastTime - (j - 1) * opts.interval

\* C31: the bucket Add has written to holds only values of the interval of
\* the clock reading of that Add.
AddBucketIsFresh ==
    last.op = "Add" => \A t \in buckets[offset].added : Cell(t) = Cell(last.now)

\* floor((now - lastTime) / interval) when it is in 0..size-1, else size.
FloorSpan(now) ==
    LET f == (now - lastTime) \div opts.interval
    IN  IF 0 <= f /\ f < opts.size THEN f ELSE opts.size

\* C32: at every clock reading span() returns floor((now - lastTime) /
\* interval) when that is in 0..size-1, and size when it is negative or at
\* least size.
SpanClampsFloor ==
    (stage = "window" /\ opts.interval > 0) => span(clock) = FloorSpan(clock)

\* C32: the same at the clock readings that are not before lastTime.
SpanClampsFloorForward ==
    (stage = "window" /\ opts.interval > 0 /\ clock >= lastTime) => span(clock) = FloorSpan(clock)

\* C32: an Add that finds span = size resets every bucket: afterwards the
\* window holds the added value alone.
StaleAddClearsWindow ==
    [][(stage = "window" /\ last'.op = "Add" /\ adds' = adds + 1 /\ last'.span = opts.size) =>
          \A j \in Slots : buckets'[j].Count = (IF j = offset' THEN 1 ELSE 0)]_vars

\* C32: a Reduce that finds span = size visits no bucket.
StaleReduceVisitsNothing ==
    (stage = "window" /\ last.op = "Reduce" /\ last.span = opts.size) => visited = <<>>

\* The slots that follow off circularly, k of them.
Following(off, k) == {(off + i) % opts.size : i \in 1..k}

\* C33: an Add that finds span = k resets exactly the k slots that follow the
\* old offset, adds its value to the bucket at the new offset, offset + k
\* modulo size, and leaves every other bucket as it was; with k = 0 offset
\* and lastTime stay and the value is added to the bucket at offset.
AddEvictsExactlySpan ==
    [][(last'.op = "Add" /\ adds' = adds + 1) =>
          LET k == last'.span
          IN  /\ offset' = (offset + k) % opts.size
              /\ \A j \in Slots :
                    LET before == IF j \in Following(offset, k) THEN EmptyBucket ELSE buckets[j]
                    IN  /\ j # offset' => buckets'[j] = before
                        /\ j = offset' => /\ buckets'[j].Count = before.Count + 1
                                          /\ buckets'[j].Sum > before.Sum
              /\ k = 0 => lastTime' = lastTime]_vars

\* C33 witness: an Add found 0 < span < size on a window of three slots and
\* the slot it did not reach keeps its values.
AddKeptOtherBucket ==
    /\ last.op = "Add"
    /\ opts.size = 3
    /\ last.span = 1
    /\ buckets[(offset + 1) % opts.size].Count > 0
    /\ buckets[offset].Count = 1

RotatedVisits(now) ==
    LET u == updateOffset(now, now)
    IN  [i \in 1..validDiff(0) |-> u.buckets[(u.offset + i) % opts.size]]

\* The totals of Sum and of Count over the buckets bs.
Totals(bs) ==
    [Sum   |-> SeqSum([i \in 1..Len(bs) |-> bs[i].Sum]),
     Count |-> SeqSum([i \in 1..Len(bs) |-> bs[i].Count])]

\* C37: the totals of Sum and Count over the buckets Reduce visits, which
\* skips the stale slots and resets nothing, are those over the buckets it
\* would visit with span = 0 after the rotation of updateOffset, with and
\* without ignoreCurrent.
ReduceRefinesRotation ==
    (stage = "window" /\ opts.interval > 0 /\ last.op = "Reduce" /\ last.now = clock) =>
        Totals([i \in 1..Len(visited) |-> visited[i].b]) = Totals(RotatedVisits(clock))

\* C37 witness: a Reduce found 0 < span < size, skipped a stale slot that
\* holds values and folded a total that is not zero.
ReduceSkippedStale ==
    /\ last.op = "Reduce" /\ last.now = clock
    /\ 0 < last.span /\ last.span < opts.size
    /\ buckets[(offset + 1) % opts.size].Count > 0
    /\ Totals([i \in 1..Len(visited) |-> visited[i].b]).Count > 0

\* The Do call c is over: its timer's callback has run or its end function
\* has returned.
CallOver(c) == tc[c].st = "done" \/ tc[c].endpc = "returned"

\* C35: callIDs holds the id of a Do call from its registration until its
\* timeout fires or its end function is called and never afterwards, and
\* when every Do call made is over callIDs is empty.
CallIDsHoldPendingCalls ==
    /\ \A c \in 1..MaxDo :
          /\ (tc[c].st = "armed" /\ tc[c].endpc = "no") => tc[c].id \in callIDs
          /\ CallOver(c) => tc[c].id \notin callIDs
    /\ (\A c \in 1..MaxDo : tc[c].st = "none" \/ CallOver(c)) => callIDs = {}

\* C35 while no two Do calls were given the same callID.
CallIDsHoldUnlessCollision == DistinctCallIDs => CallIDsHoldPendingCalls

\* C35: no entry leaks, also when callIDs collide.
CallIDsEmptyAtEnd ==
    (\A c \in 1..MaxDo : tc[c].st = "none" \/ CallOver(c)) => callIDs = {}

\* The goroutines of the items that are started and have not returned.
Unfinished == {k \in 1..MaxItems : la.w[k] \notin {"none", "exit"}}

\* C36: resultCh of LoopConcAsync is closed only after every started
\* goroutine has finished, and no goroutine sends on resultCh after it was
\* closed, also when cancel is called while goroutines are running.
ClosedAfterEveryTask ==
    /\ la.closed => Unfinished = {}
    /\ \A k \in 1..MaxItems : la.w[k] # "panicked"

\* C36: no goroutine panics with a send on the closed resultCh.
NoSendOnClosed == \A k \in 1..MaxItems : la.w[k] # "panicked"

\* C36 while cancel is not called.
ClosedAfterEveryTaskUnlessCancel == ~la.isCancel => ClosedAfterEveryTask

\* ------------------------------------------------------------ typing
TypeOK ==
    /\ offset \in Slots
    /\ lastTime \in 0..MaxTime
    /\ clock \in 0..MaxTime
    /\ DOMAIN buckets = Slots
====
